---- MODULE Spec2Model ----
(***************************************************************************)
(* Model of gll-sistemas/action-changelog.                                 *)
(*                                                                         *)
(*   SpecTag  getTagInfo (src/src/tag.ts): the lazy scan of the paginated  *)
(*            tag list for the previous release.                           *)
(*   SpecDet  areTagsEffectivelyIdentical (src/src/changelog.ts) called    *)
(*            on (a, b) and then on (b, a) against one deterministic host. *)
(*   Spec     generateChangelog (src/src/changelog.ts): the retry walk,    *)
(*            with the calls of areTagsEffectivelyIdentical it makes.      *)
(*   FairSpec Spec, where a call that can proceed does proceed.            *)
(*   SpecWalk generateChangelog over tag lists whose tags have versions,  *)
(*            for a release with a semantic version.                       *)
(*   SpecAgg  the loop of generateChangelog over the commits of a range    *)
(*            and formatChangelog (src/src/changelog.ts), for the commit   *)
(*            lists and the configurations of a small universe.            *)
(*                                                                         *)
(* Every host call (one awaited octokit request) is one step; its answer   *)
(* is chosen by the host, which may also fail the call.                    *)
(***************************************************************************)
EXTENDS Integers, Sequences, FiniteSets, TLC

VARIABLES
    \* ---- getTagInfo (tag.ts) ----
    tpc,          \* position in getTagInfo
    sha,          \* sha(): commit sha of the current release
    semverOn,     \* semver(): is semver mode enabled
    release,      \* releaseName(), as the value parseSemVer() gives for it
    semVer,       \* local semVer (NullVersion = null)
    tagInfo,      \* local tagInfo
    data,         \* the tags of the current page not yet examined
    more,         \* the iterator has a further page (the host's "next" link)
    seen,         \* history: the tags examined so far, in stream order
    pulled,       \* history: number of page requests that were answered
    script,       \* the host's tag list when it is a fixed one
    \* ---- areTagsEffectivelyIdentical (changelog.ts) ----
    d,            \* the frame of the running call: position, arguments, locals
    memo,         \* the host's answers so far, when the host is deterministic
    phase,        \* 1: the call (a, b); 2: the call (b, a) against the same host
    first,        \* the verdict of the call of phase 1
    \* ---- generateChangelog (changelog.ts) ----
    gpc,          \* position in generateChangelog
    lastSha,      \* argument lastSha (0 = undefined)
    tags,         \* local tags
    targetSha,    \* local targetSha (0 = undefined)
    initialAttemptWithLastSha,
    retryCount,
    result,       \* the value returned
    detectorCalls,\* history: calls of areTagsEffectivelyIdentical so far,
                  \* counted up to MAX_RETRIES + 1
    fallbacks,    \* history: fallbacks to the full listing so far, up to 2
    lastCall,     \* history: the last host call of generateChangelog itself
    walk,         \* history: the verdicts of the detector and the range of
                  \* the running iteration
    \* ---- the loop over the commits, formatChangelog (changelog.ts) ----
    config,       \* the configuration read at the start of generateChangelog
    commits,      \* local commits
    locals,       \* locals typeGroups, commitCount, processedCommitCount
    apc,          \* position in the loop
    changelog     \* the document returned by formatChangelog

tagVars == <<tpc, sha, semverOn, release, semVer, tagInfo, data, more, seen,
             pulled, script>>

detVars == <<d, memo, phase, first>>

genVars == <<gpc, lastSha, tags, targetSha, initialAttemptWithLastSha,
             retryCount, result, detectorCalls, fallbacks, lastCall, walk>>

aggVars == <<config, commits, locals, apc, changelog>>

vars == <<tagVars, detVars, genVars, aggVars>>

\* what the steps of one function leave alone
notTag == <<detVars, genVars, aggVars>>
notDet == <<tagVars, genVars, aggVars>>
notGen == <<tagVars, phase, first, aggVars>>
notAgg == <<tagVars, detVars, genVars>>

-----------------------------------------------------------------------------
(* Bounds of the model.                                                    *)

\* commit shas are 1..MaxSha
MaxSha == 2
\* the host publishes at most MaxTags tags when its tag list is arbitrary
MaxTags == 2
\* tags per page (per_page: 100 in the code, scaled down)
PerPage == 2

Shas == 1..MaxSha

SeqsUpTo(S, n) == UNION {[1..k -> S] : k \in 0..n}

Min(a, b) == IF a < b THEN a ELSE b

-----------------------------------------------------------------------------
(* Semantic versions, as the semver package represents them: major, minor, *)
(* patch and the sequence of prerelease identifiers.  An identifier is     *)
(* numeric (v is its value) or alphanumeric (v is its rank in the          *)
(* lexicographic order of the identifiers used here).                      *)

Num(n) == [num |-> TRUE, v |-> n]
Alpha == [num |-> FALSE, v |-> 1]
Beta == [num |-> FALSE, v |-> 2]
Rc == [num |-> FALSE, v |-> 3]

NullVersion == [valid |-> FALSE]

V(maj, min, pat, pre) ==
    [valid |-> TRUE, major |-> maj, minor |-> min, patch |-> pat, prerelease |-> pre]

\* semver: compareIdentifiers(a, b)
compareIdentifiers(a, b) ==
    IF a = b THEN 0
    ELSE IF a.num /\ ~b.num THEN -1
    ELSE IF b.num /\ ~a.num THEN 1
    ELSE IF a.v < b.v THEN -1 ELSE 1

RECURSIVE comparePreFrom(_, _, _)
comparePreFrom(p, q, i) ==
    IF i > Len(p) /\ i > Len(q) THEN 0
    ELSE IF i > Len(q) THEN 1
    ELSE IF i > Len(p) THEN -1
    ELSE IF p[i] = q[i] THEN comparePreFrom(p, q, i + 1)
    ELSE compareIdentifiers(p[i], q[i])

\* semver: SemVer.comparePre(other)
comparePre(a, b) ==
    IF Len(a.prerelease) > 0 /\ Len(b.prerelease) = 0 THEN -1
    ELSE IF Len(a.prerelease) = 0 /\ Len(b.prerelease) > 0 THEN 1
    ELSE IF Len(a.prerelease) = 0 /\ Len(b.prerelease) = 0 THEN 0
    ELSE comparePreFrom(a.prerelease, b.prerelease, 1)

\* semver: SemVer.compareMain(other)
compareMain(a, b) ==
    IF a.major # b.major THEN (IF a.major < b.major THEN -1 ELSE 1)
    ELSE IF a.minor # b.minor THEN (IF a.minor < b.minor THEN -1 ELSE 1)
    ELSE IF a.patch # b.patch THEN (IF a.patch < b.patch THEN -1 ELSE 1)
    ELSE 0

\* semver: SemVer.compare(other), as called at tag.ts:110
compare(a, b) ==
    IF compareMain(a, b) # 0 THEN compareMain(a, b) ELSE comparePre(a, b)

-----------------------------------------------------------------------------
(* Tags.  A tag is {name, commit: {sha}}.  A tag name is represented by    *)
(* what parseSemVer makes of it: a version, or null when the name is not a *)
(* semantic version.                                                       *)

TagName(v) == [semver |-> v]

Tag(v, s) == [name |-> TagName(v), commit |-> [sha |-> s]]

\* utils: parseSemVer(name): the SemVer of a name, or null
parseSemVer(name) == name.semver

\* the versions an arbitrary host tag list is drawn from
FreeVersions ==
    { V(1, 1, 0, <<>>), V(1, 2, 0, <<>>),
      V(1, 1, 0, <<Alpha, Num(1)>>),
      V(1, 1, 0, <<Beta, Num(1)>>),
      V(1, 2, 0, <<Beta, Num(0)>>), V(1, 2, 0, <<Beta, Num(1)>>) }

FreeTags == {Tag(v, s) : v \in FreeVersions \cup {NullVersion}, s \in Shas}

\* Two fixed tag lists, most recent first, with the release they belong to:
\* release 1.2.0-beta.1 over [1.2.0-beta.1 (current), 1.2.0-beta.0, 1.1.0,
\* 1.2.0-alpha.0], and release 1.2.0 over [1.2.0 (current), 1.1.0,
\* 1.1.0-rc.1, 1.0.0].  The current release is at sha 1.
BetaRelease == V(1, 2, 0, <<Beta, Num(1)>>)
BetaList ==
    << Tag(V(1, 2, 0, <<Beta, Num(1)>>), 1), Tag(V(1, 2, 0, <<Beta, Num(0)>>), 2),
       Tag(V(1, 1, 0, <<>>), 2), Tag(V(1, 2, 0, <<Alpha, Num(0)>>), 2) >>
StableRelease == V(1, 2, 0, <<>>)
StableList ==
    << Tag(V(1, 2, 0, <<>>), 1), Tag(V(1, 1, 0, <<>>), 2),
       Tag(V(1, 1, 0, <<Rc, Num(1)>>), 2), Tag(V(1, 0, 0, <<>>), 2) >>

NoScript == [on |-> FALSE, list |-> <<>>]
Scripted(list) == [on |-> TRUE, list |-> list]

-----------------------------------------------------------------------------
(* getTagInfo                                                              *)

NoPrevious == [present |-> FALSE]
Previous(name, s) == [present |-> TRUE, name |-> name, sha |-> s]

Latest == [num |-> FALSE, v |-> 0]

\* tag.ts 55 dropped: an unparsable release name goes on as in non-semver mode
TagStart_NoParseCheck ==
    /\ tpc = "start"
    /\ IF semverOn /\ release # NullVersion
       THEN /\ semVer' = release
            /\ tagInfo' =
                 [tagInfo EXCEPT
                    !.prerelease = Len(release.prerelease) > 0,
                    !.releaseId = IF Len(release.prerelease) > 0
                                  THEN release.prerelease[1] ELSE @]
            /\ tpc' = "fetch"
       ELSE /\ tpc' = "fetch"
            /\ UNCHANGED <<semVer, tagInfo>>
    /\ UNCHANGED <<sha, semverOn, release, data, more, seen, pulled, script>>
    /\ UNCHANGED notTag

\* tag.ts 45-79: the semver of the release, and the iterator
TagStart ==
    /\ tpc = "start"
    /\ IF semverOn
       THEN IF release = NullVersion
            THEN /\ tpc' = "thrown"
                 /\ UNCHANGED <<semVer, tagInfo>>
            ELSE /\ semVer' = release
                 /\ tagInfo' =
                      [tagInfo EXCEPT
                         !.prerelease = Len(release.prerelease) > 0,
                         !.releaseId = IF Len(release.prerelease) > 0
                                       THEN release.prerelease[1] ELSE @]
                 /\ tpc' = "fetch"
       ELSE /\ tpc' = "fetch"
            /\ UNCHANGED <<semVer, tagInfo>>
    /\ UNCHANGED <<sha, semverOn, release, data, more, seen, pulled, script>>
    /\ UNCHANGED notTag

\* the pages the host may answer the next listTags request with: up to
\* PerPage tags and whether a further page follows (a page that is followed
\* by another is not empty)
NextPages ==
    IF script.on
    THEN { [page |-> SubSeq(script.list, Len(seen) + 1,
                            Min(Len(seen) + PerPage, Len(script.list))),
            next |-> Len(script.list) > Len(seen) + PerPage] }
    ELSE { r \in [page : SeqsUpTo(FreeTags, Min(PerPage, MaxTags - Len(seen))),
                   next : BOOLEAN] :
             r.next => Len(r.page) > 0 }

\* tag.ts 84: the iterator requests the next page
FetchPage ==
    /\ tpc = "fetch"
    /\ \E r \in NextPages :
         /\ data' = r.page
         /\ more' = r.next
    /\ pulled' = pulled + 1
    /\ tpc' = "scan"
    /\ UNCHANGED <<sha, semverOn, release, semVer, tagInfo, seen, script>>
    /\ UNCHANGED notTag

\* tag.ts 84: the page request fails, and getTagInfo with it
FetchFails ==
    /\ tpc = "fetch"
    /\ tpc' = "thrown"
    /\ UNCHANGED <<sha, semverOn, release, semVer, tagInfo, data, more, seen,
                   pulled, script>>
    /\ UNCHANGED notTag

\* Variants of the loop body, each with one rule of tag.ts 88-148 changed.

\* tag.ts 131 dropped: any prerelease tag is taken for a prerelease release
Examine_AnyChannel(tag) ==
    IF sha = tag.commit.sha THEN "skip"
    ELSE IF semVer = NullVersion THEN "select"
    ELSE IF parseSemVer(tag.name) = NullVersion THEN "skip"
    ELSE IF compare(semVer, parseSemVer(tag.name)) <= 0 THEN "skip"
    ELSE IF Len(semVer.prerelease) > 0
         THEN IF Len(parseSemVer(tag.name).prerelease) > 0
              THEN "select"
              ELSE "skip"
         ELSE IF Len(parseSemVer(tag.name).prerelease) > 0
              THEN "skip"
              ELSE "select"

\* tag.ts 144 dropped: a stable release takes prerelease tags too
Examine_StableTakesPrerelease(tag) ==
    IF sha = tag.commit.sha THEN "skip"
    ELSE IF semVer = NullVersion THEN "select"
    ELSE IF parseSemVer(tag.name) = NullVersion THEN "skip"
    ELSE IF compare(semVer, parseSemVer(tag.name)) <= 0 THEN "skip"
    ELSE IF Len(semVer.prerelease) > 0
         THEN IF Len(parseSemVer(tag.name).prerelease) > 0
              THEN IF semVer.prerelease[1] # parseSemVer(tag.name).prerelease[1]
                   THEN "skip"
                   ELSE "select"
              ELSE "skip"
         ELSE "select"

\* tag.ts 110 with < in place of <=: a tag of the release's own version passes
Examine_NotNewer(tag) ==
    IF sha = tag.commit.sha THEN "skip"
    ELSE IF semVer = NullVersion THEN "select"
    ELSE IF parseSemVer(tag.name) = NullVersion THEN "skip"
    ELSE IF compare(semVer, parseSemVer(tag.name)) < 0 THEN "skip"
    ELSE IF Len(semVer.prerelease) > 0
         THEN IF Len(parseSemVer(tag.name).prerelease) > 0
              THEN IF semVer.prerelease[1] # parseSemVer(tag.name).prerelease[1]
                   THEN "skip"
                   ELSE "select"
              ELSE "skip"
         ELSE IF Len(parseSemVer(tag.name).prerelease) > 0
              THEN "skip"
              ELSE "select"

\* tag.ts 93 moved below the parse: tags that are no semantic version are
\* skipped in non-semver mode too
Examine_ParseFirst(tag) ==
    IF sha = tag.commit.sha THEN "skip"
    ELSE IF parseSemVer(tag.name) = NullVersion THEN "skip"
    ELSE IF semVer = NullVersion THEN "select"
    ELSE IF compare(semVer, parseSemVer(tag.name)) <= 0 THEN "skip"
    ELSE IF Len(semVer.prerelease) > 0
         THEN IF Len(parseSemVer(tag.name).prerelease) > 0
              THEN IF semVer.prerelease[1] # parseSemVer(tag.name).prerelease[1]
                   THEN "skip"
                   ELSE "select"
              ELSE "skip"
         ELSE IF Len(parseSemVer(tag.name).prerelease) > 0
              THEN "skip"
              ELSE "select"

\* tag.ts 88-148: what the loop body does with one tag
Examine(tag) ==
    IF sha = tag.commit.sha THEN "skip"
    ELSE IF semVer = NullVersion THEN "select"
    ELSE IF parseSemVer(tag.name) = NullVersion THEN "skip"
    ELSE IF compare(semVer, parseSemVer(tag.name)) <= 0 THEN "skip"
    ELSE IF Len(semVer.prerelease) > 0
         THEN IF Len(parseSemVer(tag.name).prerelease) > 0
              THEN IF semVer.prerelease[1] # parseSemVer(tag.name).prerelease[1]
                   THEN "skip"
                   ELSE "select"
              ELSE "skip"
         ELSE IF Len(parseSemVer(tag.name).prerelease) > 0
              THEN "skip"
              ELSE "select"

\* The inner loop without its "break loop": the scan goes on after a match
ExamineTag_NoBreak ==
    /\ tpc = "scan"
    /\ data # <<>>
    /\ seen' = Append(seen, Head(data))
    /\ data' = Tail(data)
    /\ IF Examine(Head(data)) = "select"
       THEN tagInfo' = [tagInfo EXCEPT
                          !.previous = Previous(Head(data).name, Head(data).commit.sha)]
       ELSE UNCHANGED tagInfo
    /\ UNCHANGED <<tpc, sha, semverOn, release, semVer, more, pulled, script>>
    /\ UNCHANGED notTag

\* "break" in place of "break loop": a selection leaves the page, not the
\* stream of pages
ExamineTag_BreakPage ==
    /\ tpc = "scan"
    /\ data # <<>>
    /\ seen' = Append(seen, Head(data))
    /\ IF Examine(Head(data)) = "select"
       THEN /\ tagInfo' = [tagInfo EXCEPT
                             !.previous = Previous(Head(data).name, Head(data).commit.sha)]
            /\ data' = <<>>
       ELSE /\ data' = Tail(data)
            /\ UNCHANGED tagInfo
    /\ UNCHANGED <<tpc, sha, semverOn, release, semVer, more, pulled, script>>
    /\ UNCHANGED notTag

\* tag.ts 85-157: one iteration of the inner loop
ExamineTag ==
    /\ tpc = "scan"
    /\ data # <<>>
    /\ seen' = Append(seen, Head(data))
    /\ data' = Tail(data)
    /\ IF Examine(Head(data)) = "select"
       THEN /\ tagInfo' = [tagInfo EXCEPT
                             !.previous = Previous(Head(data).name, Head(data).commit.sha)]
            /\ tpc' = "done"
       ELSE UNCHANGED <<tagInfo, tpc>>
    /\ UNCHANGED <<sha, semverOn, release, semVer, more, pulled, script>>
    /\ UNCHANGED notTag

\* tag.ts 84, 160-166: the page is exhausted: next page, or return
PageDone ==
    /\ tpc = "scan"
    /\ data = <<>>
    /\ tpc' = IF more THEN "fetch" ELSE "done"
    /\ UNCHANGED <<sha, semverOn, release, semVer, tagInfo, data, more, seen,
                   pulled, script>>
    /\ UNCHANGED notTag


-----------------------------------------------------------------------------
(* The host (octokit rest API), as far as the equivalence detector and the *)
(* retry walk use it.  A failed call is answered Fail.                     *)

Fail == [ok |-> FALSE]

\* ahead_by, behind_by and files.length: zero or not
Counts == 0..1
\* data.files may be missing from a compare answer
NoFiles == -1
\* tree shas
Trees == 1..2

\* rest.repos.compareCommits: data.{ahead_by, behind_by, files, status}
CompareAnswers ==
    {Fail} \cup [ok : {TRUE}, ahead_by : Counts, behind_by : Counts,
                 files : {NoFiles} \cup Counts, status : {"identical", "diverged"}]

\* rest.git.getRef: data.object.{sha, type}
RefAnswers == {Fail} \cup [ok : {TRUE}, sha : Shas, type : {"commit", "tag"}]

\* rest.git.getTag: data.object.sha
TagAnswers == {Fail} \cup [ok : {TRUE}, sha : Shas]

\* rest.git.getCommit, as the detector reads it: data.tree.sha
CommitAnswers == {Fail} \cup [ok : {TRUE}, tree : Trees]

(* References are strings.  A reference is an optional "refs/tags/" or     *)
(* "refs/heads/" prefix followed by a name; a name is either of the form   *)
(* v<major>.<minor>.<patch>-develop or any other string (a sha, a tag or a *)
(* branch name), identified by a number.                                   *)
Plain(n) == [kind |-> "plain", id |-> n]
Dev(maj, min, pat) == [kind |-> "dev", major |-> maj, minor |-> min, patch |-> pat]
Ref(pfx, name) == [pfx |-> pfx, name |-> name]
\* the string of a commit sha
ShaRef(n) == Ref("", Plain(n))

\* changelog.ts 121-125: ref.replace(/^refs\/(tags|heads)\//, '')
normalizeRef(ref) ==
    IF ref.pfx \in {"refs/tags/", "refs/heads/"} THEN Ref("", ref.name) ELSE ref

\* changelog.ts 314, 323: ref.replace(/^refs\/tags\//, ''), and for heads
StripPrefix(ref, pfx) == IF ref.pfx = pfx THEN Ref("", ref.name) ELSE ref

\* changelog.ts 134-136: match(/^v(\d+)\.(\d+)\.(\d+)-develop$/)
devTagPattern(ref) == ref.pfx = "" /\ ref.name.kind = "dev"

\* the requests
CompareReq(base, head) == [op |-> "compareCommits", base |-> base, head |-> head]
RefReq(ns, ref) == [op |-> "getRef", ns |-> ns, ref |-> ref]
TagReq(s) == [op |-> "getTag", tag_sha |-> s]
CommitReq(ref) == [op |-> "getCommit", commit_sha |-> ref]

(* A deterministic host answers a repeated request as before, and answers  *)
(* compare(b, a) as the mirror of compare(a, b): ahead and behind swapped. *)
Mirror(ans) ==
    IF ans.ok
    THEN [ans EXCEPT !.ahead_by = ans.behind_by, !.behind_by = ans.ahead_by]
    ELSE ans

Swapped(req) == CompareReq(req.head, req.base)

Answered(req) == \E e \in memo.log : e.req = req

AnsweredMirror(req) ==
    /\ req.op = "compareCommits"
    /\ \E e \in memo.log : e.req = Swapped(req)

Recall(req) ==
    IF Answered(req)
    THEN (CHOOSE e \in memo.log : e.req = req).ans
    ELSE Mirror((CHOOSE e \in memo.log : e.req = Swapped(req)).ans)

\* the answers the host may give to req, all being the answers to such a call
HostAnswers(req, all) ==
    IF memo.on /\ (Answered(req) \/ AnsweredMirror(req)) THEN {Recall(req)} ELSE all

Remember(req, ans) ==
    memo' = IF memo.on /\ ~Answered(req)
            THEN [memo EXCEPT !.log = @ \cup {[req |-> req, ans |-> ans]}]
            ELSE memo

-----------------------------------------------------------------------------
(* areTagsEffectivelyIdentical(baseRef, headRef)                           *)

Sides == {"base", "head"}
NoData == [base |-> Fail, head |-> Fail]
NoRefs == [base |-> ShaRef(0), head |-> ShaRef(0)]

IdleFrame ==
    [pc |-> "idle", ref |-> NoRefs, verdict |-> FALSE,
     tagData |-> NoData, commitSha |-> [base |-> 0, head |-> 0],
     commit |-> NoData, refData |-> NoData]

DetIdle ==
    /\ d = IdleFrame
    /\ memo = [on |-> FALSE, log |-> {}]
    /\ phase = 0
    /\ first = FALSE

\* return v: the frame is left with the verdict only
Return(f, v) == [IdleFrame EXCEPT !.pc = "returned", !.ref = f.ref, !.verdict = v]

\* changelog.ts 377-378: no check proved the references identical
ReturnDifferent_True(f) == Return(f, TRUE)
ReturnDifferent(f) == Return(f, FALSE)

\* changelog.ts 113-138: entry, up to the first host call
Enter(base, head) ==
    [IdleFrame EXCEPT
       !.ref = [base |-> base, head |-> head],
       !.pc = IF devTagPattern(normalizeRef(base)) /\ devTagPattern(normalizeRef(head))
              THEN "devCompare" ELSE "compare"]

norm(f, side) == normalizeRef(f.ref[side])

\* changelog.ts 154, 160, 166 and 285, 291, 297: what a compare answer proves
CompareProves_AheadOnly(ans) ==
    \/ ans.ahead_by = 0
    \/ ans.files = 0
    \/ ans.status = "identical"
CompareProves(ans) ==
    \/ ans.ahead_by = 0 /\ ans.behind_by = 0
    \/ ans.files = 0
    \/ ans.status = "identical"

\* changelog.ts 176-181: only the patch differs, by one
Sequential(f) ==
    LET b == norm(f, "base").name
        h == norm(f, "head").name
        diff == h.patch - b.patch
    IN  /\ b.major = h.major
        /\ b.minor = h.minor
        /\ (IF diff < 0 THEN -diff ELSE diff) = 1

\* changelog.ts 142-181: the compare of two development tags
DevCompare ==
    /\ d.pc = "devCompare"
    /\ LET req == CompareReq(norm(d, "base"), norm(d, "head"))
       IN \E r \in HostAnswers(req, CompareAnswers) :
            /\ Remember(req, r)
            /\ d' = IF r.ok /\ CompareProves(r) THEN Return(d, TRUE)
                    ELSE IF Sequential(d)
                         THEN [d EXCEPT !.pc = "devTagRef_base"]
                         ELSE [d EXCEPT !.pc = "compare"]
    /\ UNCHANGED <<phase, first>>
    /\ UNCHANGED notDet

\* changelog.ts 268-270: an error in the tree comparison of development tags
\* is caught; the standard checks follow
DevCatch(f) == [f EXCEPT !.pc = "compare"]

\* changelog.ts 244-266, once both commit shas are known
DevCommitShas(f) ==
    IF f.commitSha.base = f.commitSha.head THEN Return(f, TRUE)
    ELSE [f EXCEPT !.pc = "devCommit_base"]

\* changelog.ts 234-247: the head tag is dereferenced if it is annotated
DevDerefHead(f) ==
    IF f.tagData.head.type = "tag" THEN [f EXCEPT !.pc = "devTag_head"]
    ELSE DevCommitShas(f)

\* changelog.ts 207-232, once both refs are known: the same object, or else
\* the base tag is dereferenced if it is annotated
DevTagData(f) ==
    IF f.tagData.base.sha = f.tagData.head.sha THEN Return(f, TRUE)
    ELSE LET g == [f EXCEPT !.commitSha = [base |-> f.tagData.base.sha,
                                           head |-> f.tagData.head.sha]]
         IN  IF g.tagData.base.type = "tag" THEN [g EXCEPT !.pc = "devTag_base"]
             ELSE DevDerefHead(g)

DevGotRef(f, side, r) ==
    LET g == [f EXCEPT !.tagData[side] = r]
    IN  IF side = "base" THEN [g EXCEPT !.pc = "devTagRef_head"] ELSE DevTagData(g)

\* changelog.ts 186-189, 196-199: getRef tags/<name>
DevTagRef(side) ==
    /\ d.pc = IF side = "base" THEN "devTagRef_base" ELSE "devTagRef_head"
    /\ LET req == RefReq("tags", norm(d, side))
       IN \E r \in HostAnswers(req, RefAnswers) :
            /\ Remember(req, r)
            /\ d' = IF r.ok THEN DevGotRef(d, side, r)
                    ELSE [d EXCEPT !.pc = IF side = "base" THEN "devHeadsRef_base"
                                          ELSE "devHeadsRef_head"]
    /\ UNCHANGED <<phase, first>>
    /\ UNCHANGED notDet

\* changelog.ts 190-194, 200-204: .catch(() => getRef heads/<name>)
DevHeadsRef(side) ==
    /\ d.pc = IF side = "base" THEN "devHeadsRef_base" ELSE "devHeadsRef_head"
    /\ LET req == RefReq("heads", norm(d, side))
       IN \E r \in HostAnswers(req, RefAnswers) :
            /\ Remember(req, r)
            /\ d' = IF r.ok THEN DevGotRef(d, side, r) ELSE DevCatch(d)
    /\ UNCHANGED <<phase, first>>
    /\ UNCHANGED notDet

\* changelog.ts 225-241: getTag of an annotated tag
DevTag(side) ==
    /\ d.pc = IF side = "base" THEN "devTag_base" ELSE "devTag_head"
    /\ LET req == TagReq(d.tagData[side].sha)
       IN \E r \in HostAnswers(req, TagAnswers) :
            /\ Remember(req, r)
            /\ d' = IF ~r.ok THEN DevCatch(d)
                    ELSE IF side = "base"
                    THEN DevDerefHead([d EXCEPT !.commitSha.base = r.sha])
                    ELSE DevCommitShas([d EXCEPT !.commitSha.head = r.sha])
    /\ UNCHANGED <<phase, first>>
    /\ UNCHANGED notDet

\* changelog.ts 250-266: getCommit of both commits, and their trees
DevCommit(side) ==
    /\ d.pc = IF side = "base" THEN "devCommit_base" ELSE "devCommit_head"
    /\ LET req == CommitReq(ShaRef(d.commitSha[side]))
       IN \E r \in HostAnswers(req, CommitAnswers) :
            /\ Remember(req, r)
            /\ d' = IF ~r.ok THEN DevCatch(d)
                    ELSE IF side = "base"
                    THEN [d EXCEPT !.commit.base = r, !.pc = "devCommit_head"]
                    ELSE IF d.commit.base.tree = r.tree THEN Return(d, TRUE)
                    ELSE [d EXCEPT !.pc = "compare"]
    /\ UNCHANGED <<phase, first>>
    /\ UNCHANGED notDet

Compare_NoReturn ==
    /\ d.pc = "compare"
    /\ LET req == CompareReq(d.ref.base, d.ref.head)
       IN \E r \in HostAnswers(req, CompareAnswers) :
            /\ Remember(req, r)
            /\ d' = [d EXCEPT !.pc = "resTag_base"]
    /\ UNCHANGED <<phase, first>>
    /\ UNCHANGED notDet

\* changelog.ts 275-303: the compare of the references as given
Compare ==
    /\ d.pc = "compare"
    /\ LET req == CompareReq(d.ref.base, d.ref.head)
       IN \E r \in HostAnswers(req, CompareAnswers) :
            /\ Remember(req, r)
            /\ d' = IF r.ok /\ CompareProves(r) THEN Return(d, TRUE)
                    ELSE [d EXCEPT !.pc = "resTag_base"]
    /\ UNCHANGED <<phase, first>>
    /\ UNCHANGED notDet

\* changelog.ts 342-353, once both references are resolved: both answers
\* must be refs (have data.object), else nothing is compared
Resolved(f) ==
    IF "sha" \in DOMAIN f.refData.base /\ "sha" \in DOMAIN f.refData.head
    THEN IF f.refData.base.sha = f.refData.head.sha THEN Return(f, TRUE)
         ELSE [f EXCEPT !.pc = "treeCommit_base"]
    ELSE ReturnDifferent(f)

ResGot(f, side, r) ==
    LET g == [f EXCEPT !.refData[side] = r]
    IN  IF side = "base" THEN [g EXCEPT !.pc = "resTag_head"] ELSE Resolved(g)

\* changelog.ts 311-317: resolveRef tries the reference as a tag
ResTag(side) ==
    /\ d.pc = IF side = "base" THEN "resTag_base" ELSE "resTag_head"
    /\ LET req == RefReq("tags", StripPrefix(d.ref[side], "refs/tags/"))
       IN \E r \in HostAnswers(req, RefAnswers) :
            /\ Remember(req, r)
            /\ d' = IF r.ok THEN ResGot(d, side, r)
                    ELSE [d EXCEPT !.pc = IF side = "base" THEN "resBranch_base"
                                          ELSE "resBranch_head"]
    /\ UNCHANGED <<phase, first>>
    /\ UNCHANGED notDet

\* changelog.ts 320-326: then as a branch
ResBranch(side) ==
    /\ d.pc = IF side = "base" THEN "resBranch_base" ELSE "resBranch_head"
    /\ LET req == RefReq("heads", StripPrefix(d.ref[side], "refs/heads/"))
       IN \E r \in HostAnswers(req, RefAnswers) :
            /\ Remember(req, r)
            /\ d' = IF r.ok THEN ResGot(d, side, r)
                    ELSE [d EXCEPT !.pc = IF side = "base" THEN "resCommit_base"
                                          ELSE "resCommit_head"]
    /\ UNCHANGED <<phase, first>>
    /\ UNCHANGED notDet

\* changelog.ts 329-333, 373-378: then as a sha; the promise is returned, not
\* awaited, so its rejection leaves resolveRef and is caught at 373
ResCommit(side) ==
    /\ d.pc = IF side = "base" THEN "resCommit_base" ELSE "resCommit_head"
    /\ LET req == CommitReq(d.ref[side])
       IN \E r \in HostAnswers(req, CommitAnswers) :
            /\ Remember(req, r)
            /\ d' = IF r.ok THEN ResGot(d, side, r) ELSE ReturnDifferent(d)
    /\ UNCHANGED <<phase, first>>
    /\ UNCHANGED notDet

\* changelog.ts 354-378: getCommit of both objects (null on failure), and
\* their trees
TreeCommit(side) ==
    /\ d.pc = IF side = "base" THEN "treeCommit_base" ELSE "treeCommit_head"
    /\ LET req == CommitReq(ShaRef(d.refData[side].sha))
       IN \E r \in HostAnswers(req, CommitAnswers) :
            /\ Remember(req, r)
            /\ d' = IF side = "base"
                    THEN [d EXCEPT !.commit.base = r, !.pc = "treeCommit_head"]
                    ELSE IF d.commit.base.ok /\ r.ok /\ d.commit.base.tree = r.tree
                    THEN Return(d, TRUE)
                    ELSE ReturnDifferent(d)
    /\ UNCHANGED <<phase, first>>
    /\ UNCHANGED notDet

\* changelog.ts 275-378: the steps of the checks made for all references
StdStep ==
    \/ Compare
    \/ \E side \in Sides : ResTag(side)
    \/ \E side \in Sides : ResBranch(side)
    \/ \E side \in Sides : ResCommit(side)
    \/ \E side \in Sides : TreeCommit(side)

\* changelog.ts 138-272: the steps of the checks made for development tags
DevStep ==
    \/ DevCompare
    \/ \E side \in Sides : DevTagRef(side)
    \/ \E side \in Sides : DevHeadsRef(side)
    \/ \E side \in Sides : DevTag(side)
    \/ \E side \in Sides : DevCommit(side)

\* the steps of a running call
DetStep == DevStep \/ StdStep

\* the positions of a call that awaits a host answer
DetAwaiting ==
    {"devCompare", "compare"} \cup
    {p \o "_" \o side : p \in {"devTagRef", "devHeadsRef", "devTag", "devCommit",
                                "resTag", "resBranch", "resCommit", "treeCommit"},
                         side \in Sides}

-----------------------------------------------------------------------------
(* The building of the changelog: the loop over the commits of             *)
(* generateChangelog, and formatChangelog.                                 *)

(* The configuration read at changelog.ts 388-393.  typeMap is the mapping *)
(* of commit types to display types, as the sequence of its entries in     *)
(* declaration order.                                                      *)
Config(tm, dt, cl, pl, ma, al) ==
    [typeMap |-> tm, defaultType |-> dt, shouldIncludeCommitLinks |-> cl,
     shouldIncludePRLinks |-> pl, shouldMentionAuthors |-> ma,
     shouldUseGithubAutolink |-> al]

Entry(raw, display) == [raw |-> raw, display |-> display]

\* type in typeMap
InTypeMap(typeMap, type) == \E i \in DOMAIN typeMap : typeMap[i].raw = type
\* typeMap[type]
Lookup(typeMap, type) ==
    typeMap[CHOOSE i \in DOMAIN typeMap : typeMap[i].raw = type].display
\* Object.values(typeMap)
Values(typeMap) == [i \in DOMAIN typeMap |-> typeMap[i].display]

(* What parseCommitMessage makes of a commit message: it throws, gives     *)
(* null, or gives a record.  pr is 0 when the message names none.          *)
ParserThrows == [outcome |-> "throws"]
ParsedNull == [outcome |-> "null"]
Parsed(type, scope, description, breaking, pr, flag) ==
    [outcome |-> "parsed", merge |-> FALSE, revert |-> FALSE, type |-> type,
     scope |-> scope, description |-> description, breaking |-> breaking,
     pr |-> pr, flag |-> flag]
AsMerge(parsed) == [parsed EXCEPT !.merge = TRUE]
AsRevert(parsed) == [parsed EXCEPT !.revert = TRUE]

\* a commit of a range or of a listing: commit.sha, commit.author?.login
\* ("" when there is none) and its message, as what the parser makes of it
Commit(s, login, parsed) == [sha |-> s, login |-> login, parsed |-> parsed]

(* A reference string is built of parts joined by " ": a link to a pull    *)
(* request or to a commit (in autolink or in markdown form), the mention   *)
(* of an author, and "&".                                                  *)
PrLink(pr, autolink) == [part |-> "pr", pr |-> pr, autolink |-> autolink]
CommitLink(s, autolink) == [part |-> "commit", sha |-> s, autolink |-> autolink]
Mention(login) == [part |-> "by", login |-> login]
Amp == [part |-> "&"]

\* String.prototype.endsWith(mention)
EndsWith(str, mention) == Len(str) > 0 /\ str[Len(str)] = mention

\* String.prototype.replace(mention, with): the first occurrence
Replace(str, mention, with) ==
    IF \E i \in DOMAIN str : str[i] = mention
    THEN LET i == CHOOSE k \in DOMAIN str :
                    /\ str[k] = mention
                    /\ \A j \in 1..k - 1 : str[j] # mention
         IN  SubSeq(str, 1, i - 1) \o with \o SubSeq(str, i + 1, Len(str))
    ELSE str

\* "else" dropped at changelog.ts 561: the link of the commit is added to
\* the link of the pull request
Reference_Both(cfg, commit) ==
    (IF commit.parsed.pr # 0 /\ cfg.shouldIncludePRLinks
     THEN <<PrLink(commit.parsed.pr, cfg.shouldUseGithubAutolink)>> ELSE <<>>) \o
    (IF cfg.shouldIncludeCommitLinks
     THEN <<CommitLink(commit.sha, cfg.shouldUseGithubAutolink)>> ELSE <<>>)

\* changelog.ts 558-561: the link of a commit
Reference(cfg, commit) ==
    IF commit.parsed.pr # 0 /\ cfg.shouldIncludePRLinks
    THEN <<PrLink(commit.parsed.pr, cfg.shouldUseGithubAutolink)>>
    ELSE IF cfg.shouldIncludeCommitLinks
    THEN <<CommitLink(commit.sha, cfg.shouldUseGithubAutolink)>>
    ELSE <<>>

AddReference_NoMerge(cfg, references, commit) ==
    LET reference == Reference(cfg, commit)
        username == commit.login
    IN  IF username # "" /\ cfg.shouldMentionAuthors
        THEN Append(references, reference \o <<Mention(username)>>)
        ELSE IF Len(reference) > 0 THEN Append(references, reference)
        ELSE references

\* the merge with any earlier reference of the author, not only the last
AddReference_AnyPrevious(cfg, references, commit) ==
    LET reference == Reference(cfg, commit)
        username == commit.login
        mention == Mention(username)
        same == {i \in DOMAIN references : EndsWith(references[i], mention)}
        at == CHOOSE i \in same : \A j \in same : j <= i
    IN  IF username # "" /\ cfg.shouldMentionAuthors
        THEN IF same # {}
             THEN [references EXCEPT
                     ![at] = Replace(@, mention, <<Amp>> \o reference \o <<mention>>)]
             ELSE Append(references, reference \o <<mention>>)
        ELSE IF Len(reference) > 0 THEN Append(references, reference)
        ELSE references

\* changelog.ts 558-581: log.references after the commit
AddReference(cfg, references, commit) ==
    LET reference == Reference(cfg, commit)
        username == commit.login
        mention == Mention(username)
        last == Len(references)
    IN  IF username # "" /\ cfg.shouldMentionAuthors
        THEN IF last > 0 /\ EndsWith(references[last], mention)
             THEN [references EXCEPT
                     ![last] = Replace(@, mention, <<Amp>> \o reference \o <<mention>>)]
             ELSE Append(references, reference \o <<mention>>)
        ELSE IF Len(reference) > 0 THEN Append(references, reference)
        ELSE references

\* Array.prototype.find on typeGroups, scopes and logs: the index, 0 if none
First(S) == IF S = {} THEN 0 ELSE CHOOSE i \in S : \A j \in S : i <= j
TypeIndex(groups, type) == First({i \in DOMAIN groups : groups[i].type = type})
ScopeIndex(scopes, scope) == First({i \in DOMAIN scopes : scopes[i].scope = scope})
LogIndex_None(logs, description) == 0
LogIndex(logs, description) ==
    First({i \in DOMAIN logs : logs[i].description = description})

\* a breaking commit makes the line it is merged into breaking
EnterCommit_BreakingSpreads(cfg, typeGroups, commit) ==
    LET p == commit.parsed
        type == Lookup(cfg.typeMap, p.type)
        ft == TypeIndex(typeGroups, type)
        groups == IF ft = 0 THEN Append(typeGroups, [type |-> type, scopes |-> <<>>])
                  ELSE typeGroups
        ti == IF ft = 0 THEN Len(groups) ELSE ft
        fs == ScopeIndex(groups[ti].scopes, p.scope)
        scopes == IF fs = 0
                  THEN Append(groups[ti].scopes, [scope |-> p.scope, logs |-> <<>>])
                  ELSE groups[ti].scopes
        si == IF fs = 0 THEN Len(scopes) ELSE fs
        fl == LogIndex(scopes[si].logs, p.description)
        logs == IF fl = 0
                THEN Append(scopes[si].logs,
                            [breaking |-> p.breaking, description |-> p.description,
                             references |-> <<>>])
                ELSE scopes[si].logs
        li == IF fl = 0 THEN Len(logs) ELSE fl
        references == AddReference(cfg, logs[li].references, commit)
    IN  [groups EXCEPT
           ![ti].scopes = [scopes EXCEPT
              ![si].logs = [logs EXCEPT ![li].references = references,
                                        ![li].breaking = @ \/ p.breaking]]]

\* changelog.ts 522-581: the commit is entered into typeGroups
EnterCommit(cfg, typeGroups, commit) ==
    LET p == commit.parsed
        type == Lookup(cfg.typeMap, p.type)
        ft == TypeIndex(typeGroups, type)
        groups == IF ft = 0 THEN Append(typeGroups, [type |-> type, scopes |-> <<>>])
                  ELSE typeGroups
        ti == IF ft = 0 THEN Len(groups) ELSE ft
        fs == ScopeIndex(groups[ti].scopes, p.scope)
        scopes == IF fs = 0
                  THEN Append(groups[ti].scopes, [scope |-> p.scope, logs |-> <<>>])
                  ELSE groups[ti].scopes
        si == IF fs = 0 THEN Len(scopes) ELSE fs
        fl == LogIndex(scopes[si].logs, p.description)
        logs == IF fl = 0
                THEN Append(scopes[si].logs,
                            [breaking |-> p.breaking, description |-> p.description,
                             references |-> <<>>])
                ELSE scopes[si].logs
        li == IF fl = 0 THEN Len(logs) ELSE fl
        references == AddReference(cfg, logs[li].references, commit)
    IN  [groups EXCEPT
           ![ti].scopes = [scopes EXCEPT
              ![si].logs = [logs EXCEPT ![li].references = references]]]

\* the locals of the loop: typeGroups and the two counters; thrown when an
\* error has left the loop
NoGroups == [typeGroups |-> <<>>, commitCount |-> 0, processedCommitCount |-> 0,
             thrown |-> FALSE]

\* changelog.ts 503-518: is the commit skipped
Skipped_KeepMerges(cfg, parsed) ==
    \/ parsed.outcome = "null"
    \/ parsed.type = "" \/ ~InTypeMap(cfg.typeMap, parsed.type)
Skipped(cfg, parsed) ==
    \/ parsed.outcome = "null"
    \/ parsed.merge \/ parsed.revert
    \/ parsed.type = "" \/ ~InTypeMap(cfg.typeMap, parsed.type)

\* changelog.ts 498-582: the body of the loop, for one commit
LoopBody_NoCatch(cfg, acc, commit) ==
    LET counted == [acc EXCEPT !.commitCount = @ + 1]
    IN  IF commit.parsed.outcome = "throws" THEN [counted EXCEPT !.thrown = TRUE]
        ELSE IF Skipped(cfg, commit.parsed) THEN counted
        ELSE [counted EXCEPT
                !.processedCommitCount = @ + 1,
                !.typeGroups = EnterCommit(cfg, @, commit)]
LoopBody_Fallback(cfg, acc, commit) ==
    LET counted == [acc EXCEPT !.commitCount = @ + 1]
        p == commit.parsed
        lenient == IF InTypeMap(cfg.typeMap, p.type) THEN cfg
                   ELSE [cfg EXCEPT !.typeMap = Append(@, Entry(p.type, cfg.defaultType))]
    IN  IF p.outcome = "throws" THEN counted
        ELSE IF p.outcome = "null" \/ p.merge \/ p.revert THEN counted
        ELSE [counted EXCEPT
                !.processedCommitCount = @ + 1,
                !.typeGroups = EnterCommit(lenient, @, commit)]
LoopBody(cfg, acc, commit) ==
    LET counted == [acc EXCEPT !.commitCount = @ + 1]
    IN  IF commit.parsed.outcome = "throws" THEN counted
        ELSE IF Skipped(cfg, commit.parsed) THEN counted
        ELSE [counted EXCEPT
                !.processedCommitCount = @ + 1,
                !.typeGroups = EnterCommit(cfg, @, commit)]

\* changelog.ts 494-582: the loop over commits
RECURSIVE Loop(_, _, _)
Loop(cfg, acc, range) ==
    IF range = <<>> \/ acc.thrown THEN acc
    ELSE Loop(cfg, LoopBody(cfg, acc, Head(range)), Tail(range))

\* changelog.ts 63-65: unique
RECURSIVE unique(_)
unique(value) ==
    IF value = <<>> THEN <<>>
    ELSE LET init == unique(SubSeq(value, 1, Len(value) - 1))
             last == value[Len(value)]
         IN  IF \E i \in DOMAIN init : init[i] = last THEN init
             ELSE Append(init, last)

\* the scope names, in the order of localeCompare
ScopeNames == <<"", "api", "core">>
ScopeRank(scope) == CHOOSE i \in DOMAIN ScopeNames : ScopeNames[i] = scope

\* no sort: the scope groups stay in the order of arrival
sortBy_Unsorted(scopes) == scopes

\* changelog.ts 67-69: sortBy(scopes, "scope"), a stable sort
RECURSIVE sortBy(_)
sortBy(scopes) ==
    IF scopes = <<>> THEN <<>>
    ELSE LET least == CHOOSE i \in DOMAIN scopes :
                        /\ \A j \in DOMAIN scopes :
                              ScopeRank(scopes[i].scope) <= ScopeRank(scopes[j].scope)
                        /\ \A j \in 1..i - 1 :
                              ScopeRank(scopes[j].scope) # ScopeRank(scopes[i].scope)
         IN  <<scopes[least]>> \o
             sortBy(SubSeq(scopes, 1, least - 1) \o SubSeq(scopes, least + 1, Len(scopes)))

\* the lines of the document
Heading(type) == [line |-> "heading", type |-> type]
ScopeLine(scope) == [line |-> "scope", scope |-> scope]
LogLine(indented, log) ==
    [line |-> "log", indented |-> indented, breaking |-> log.breaking,
     description |-> log.description, references |-> log.references]
Blank == [line |-> "blank"]

\* Array.prototype.push of the lines of each, one after the other
RECURSIVE Flatten(_)
Flatten(seqs) == IF seqs = <<>> THEN <<>> ELSE Head(seqs) \o Flatten(Tail(seqs))

\* the line of the scope repeated before each of its log lines
ScopeLines_PerLine(group) ==
    Flatten([i \in DOMAIN group.logs |->
                (IF group.scope # "" THEN <<ScopeLine(group.scope)>> ELSE <<>>) \o
                <<LogLine(group.scope # "", group.logs[i])>>])

\* changelog.ts 85-100: the lines of one scope group
ScopeLines(group) ==
    (IF group.scope # "" THEN <<ScopeLine(group.scope)>> ELSE <<>>) \o
    [i \in DOMAIN group.logs |-> LogLine(group.scope # "", group.logs[i])]

TypeLines_AlwaysHeading(typeGroups, type) ==
    LET found == TypeIndex(typeGroups, type)
        scopes == sortBy(typeGroups[found].scopes)
    IN  IF found = 0 THEN <<Heading(type), Blank>>
        ELSE <<Heading(type)>> \o
             Flatten([i \in DOMAIN scopes |-> ScopeLines(scopes[i])]) \o
             <<Blank>>

\* changelog.ts 76-104: the lines of one type, none without a group of it
TypeLines(typeGroups, type) ==
    LET found == TypeIndex(typeGroups, type)
        scopes == sortBy(typeGroups[found].scopes)
    IN  IF found = 0 THEN <<>>
        ELSE <<Heading(type)>> \o
             Flatten([i \in DOMAIN scopes |-> ScopeLines(scopes[i])]) \o
             <<Blank>>

formatChangelog_ArrivalOrder(typeGroups, typeMap, defaultType) ==
    [kind |-> "changelog",
     lines |-> Flatten([i \in DOMAIN typeGroups |->
                            TypeLines(typeGroups, typeGroups[i].type)])]

\* changelog.ts 73 without unique: a display type of two commit types is
\* gone through twice
formatChangelog_NoUnique(typeGroups, typeMap, defaultType) ==
    LET types == Values(typeMap) \o <<defaultType>>
    IN  [kind |-> "changelog",
         lines |-> Flatten([i \in DOMAIN types |-> TypeLines(typeGroups, types[i])])]

\* changelog.ts 72-107: the document, as its lines (joined by "\n")
formatChangelog(typeGroups, typeMap, defaultType) ==
    LET types == unique(Values(typeMap) \o <<defaultType>>)
    IN  [kind |-> "changelog",
         lines |-> Flatten([i \in DOMAIN types |-> TypeLines(typeGroups, types[i])])]

\* commitTypes(): two mappings, the second with two commit types of one
\* display type, declared after another
TypeMap1 == <<Entry("feat", "Features"), Entry("fix", "Bug Fixes")>>
TypeMap2 == <<Entry("fix", "Bug Fixes"), Entry("feat", "Features"),
              Entry("perf", "Features")>>

\* the configuration of the runs of generateChangelog
GenConfig == Config(TypeMap1, "Other", TRUE, TRUE, TRUE, FALSE)

\* no document yet
NoChangelog == [kind |-> "none"]

\* the loop is not running
AggIdle ==
    /\ config = GenConfig
    /\ commits = <<>>
    /\ locals = NoGroups
    /\ apc = "idle"
    /\ changelog = NoChangelog

\* changelog.ts 498-582: the next commit of the list goes through the body
LoopStep ==
    /\ apc = "loop"
    /\ locals.commitCount < Len(commits)
    /\ locals' = LoopBody(config, locals, commits[locals.commitCount + 1])
    /\ apc' = IF locals'.thrown THEN "thrown" ELSE "loop"
    /\ UNCHANGED <<config, commits, changelog>>
    /\ UNCHANGED notAgg

\* changelog.ts 614: the list is exhausted, the document is made
Render ==
    /\ apc = "loop"
    /\ locals.commitCount = Len(commits)
    /\ changelog' = formatChangelog(locals.typeGroups, config.typeMap,
                                    config.defaultType)
    /\ apc' = "returned"
    /\ UNCHANGED <<config, commits, locals>>
    /\ UNCHANGED notAgg

-----------------------------------------------------------------------------
(* generateChangelog(lastSha)                                              *)

\* changelog.ts 405
MAX_RETRIES == 5
\* a commit has at most MaxParents parents
MaxParents == 2
\* a range or a listing has at most MaxCommits commits
MaxCommits == 2

\* the value undefined of lastSha and targetSha
Undefined == 0

\* paginate(rest.repos.listTags): only commit.sha of a tag is read
GenTags == {Tag(NullVersion, s) : s \in Shas}
ListTagsAnswers ==
    IF script.on THEN {Fail, [ok |-> TRUE, tags |-> script.list]}
    ELSE {Fail} \cup {[ok |-> TRUE, tags |-> ts] : ts \in SeqsUpTo(GenTags, MaxTags)}

\* rest.git.getCommit, as generateChangelog reads it: data.parents[0].sha
ParentAnswers ==
    {Fail} \cup {[ok |-> TRUE, parents |-> ps] : ps \in SeqsUpTo(Shas, MaxParents)}

(* The commits a range or a listing is made of: one that is entered, one  *)
(* of a type typeMap does not have, a merge commit, and one whose message  *)
(* the parser throws on.                                                   *)
GenCommitPool ==
    {Commit(1, "ann", Parsed("feat", "", "d1", FALSE, 0, "")),
     Commit(1, "", Parsed("chore", "", "d1", FALSE, 0, "")),
     Commit(1, "", AsMerge(Parsed("", "", "d1", FALSE, 7, ""))),
     Commit(1, "", ParserThrows)}
CommitsAnswers ==
    {Fail} \cup {[ok |-> TRUE, commits |-> cs] : cs \in SeqsUpTo(GenCommitPool, MaxCommits)}

\* Array.prototype.findIndex on tags, by commit.sha: 0-based, -1 if absent
findIndex(ts, s) ==
    IF \E i \in DOMAIN ts : ts[i].commit.sha = s
    THEN (CHOOSE i \in DOMAIN ts :
            /\ ts[i].commit.sha = s
            /\ \A j \in 1..i - 1 : ts[j].commit.sha # s) - 1
    ELSE -1

\* tags[i], i 0-based
TagAt(i) == tags[i + 1]

Max(a, b) == IF a > b THEN a ELSE b

\* the values returned
NoResult == [kind |-> "none"]
\* changelog.ts 619-620
Unable == [kind |-> "unable"]
\* encodeURIComponent, of a sha
encodeURIComponent(s) == [uri |-> s]
\* changelog.ts 600-601: the text with the compare link from...to
NoSignificantChanges(from, to) ==
    [kind |-> "noSignificant",
     from |-> encodeURIComponent(from), to |-> encodeURIComponent(to)]

(* What the run has seen: same, the detector found the base of the running *)
(* iteration identical to the current sha; different, it has found some    *)
(* base not identical, first when retryCount was at; emptyRange, the range *)
(* compare of the running iteration gave no commits.                       *)
NoWalk == [same |-> FALSE, different |-> FALSE, at |-> 0, emptyRange |-> FALSE,
           tried |-> {}]

\* the host calls of generateChangelog: which, and whether it succeeded
NoCall == [op |-> "none", ok |-> TRUE]
Called(op, r) == [op |-> op, ok |-> r.ok]

GenIdle ==
    /\ gpc = "idle"
    /\ lastSha = Undefined
    /\ tags = <<>>
    /\ targetSha = Undefined
    /\ initialAttemptWithLastSha = FALSE
    /\ retryCount = 0
    /\ result = NoResult
    /\ detectorCalls = 0
    /\ fallbacks = 0
    /\ lastCall = NoCall
    /\ walk = NoWalk

\* changelog.ts 408: the condition of the while loop
LoopCond_Inclusive == retryCount <= MAX_RETRIES
LoopCond == retryCount < MAX_RETRIES

\* changelog.ts 429-432, 445-448, 590-593: another base, one more retry
Retry_NoCount(next) ==
    /\ targetSha' = next
    /\ gpc' = "loop"
    /\ UNCHANGED <<retryCount, initialAttemptWithLastSha, result, fallbacks>>
Retry(next) ==
    /\ targetSha' = next
    /\ retryCount' = retryCount + 1
    /\ gpc' = "loop"
    /\ UNCHANGED <<initialAttemptWithLastSha, result, fallbacks>>

\* go on at another position of the same iteration
Goto(pc) ==
    /\ gpc' = pc
    /\ UNCHANGED <<targetSha, retryCount, initialAttemptWithLastSha, result, fallbacks>>

\* return v
ReturnValue(v) ==
    /\ gpc' = "returned"
    /\ result' = v
    /\ UNCHANGED <<targetSha, retryCount, initialAttemptWithLastSha, fallbacks>>

\* an error leaves generateChangelog
Throw ==
    /\ gpc' = "thrown"
    /\ UNCHANGED <<targetSha, retryCount, initialAttemptWithLastSha, result, fallbacks>>

\* changelog.ts 473-478: fall back to all commits
FallBack_KeepBase ==
    /\ initialAttemptWithLastSha' = FALSE
    /\ fallbacks' = Min(fallbacks + 1, 2)
    /\ gpc' = "loop"
    /\ UNCHANGED <<targetSha, retryCount, result>>
FallBack ==
    /\ targetSha' = Undefined
    /\ initialAttemptWithLastSha' = FALSE
    /\ fallbacks' = Min(fallbacks + 1, 2)
    /\ gpc' = "loop"
    /\ UNCHANGED <<retryCount, result>>

\* changelog.ts 403 as "let initialAttemptWithLastSha = false"
ListTags_NoFirstAttempt ==
    /\ gpc = "start"
    /\ \E r \in ListTagsAnswers :
         IF r.ok
         THEN /\ tags' = r.tags
              /\ targetSha' = lastSha
              /\ initialAttemptWithLastSha' = FALSE
              /\ retryCount' = 0
              /\ gpc' = "loop"
              /\ lastCall' = Called("listTags", r)
              /\ UNCHANGED <<result, fallbacks>>
         ELSE /\ Throw
              /\ lastCall' = Called("listTags", r)
              /\ UNCHANGED tags
    /\ UNCHANGED <<lastSha, detectorCalls, d, memo, walk>>
    /\ UNCHANGED notGen

\* changelog.ts 396-405: the tags are fetched, the locals initialised
ListTags ==
    /\ gpc = "start"
    /\ \E r \in ListTagsAnswers :
         IF r.ok
         THEN /\ tags' = r.tags
              /\ targetSha' = lastSha
              /\ initialAttemptWithLastSha' = (lastSha # Undefined)
              /\ retryCount' = 0
              /\ gpc' = "loop"
              /\ lastCall' = Called("listTags", r)
              /\ UNCHANGED <<result, fallbacks>>
         ELSE /\ Throw
              /\ lastCall' = Called("listTags", r)
              /\ UNCHANGED tags
    /\ UNCHANGED <<lastSha, detectorCalls, d, memo, walk>>
    /\ UNCHANGED notGen

\* changelog.ts 408-417, 482-485: one more iteration; with a base the
\* detector is called, without one all commits are listed
Iterate ==
    /\ gpc = "loop"
    /\ LoopCond
    /\ IF targetSha # Undefined
       THEN /\ d' = Enter(ShaRef(targetSha), ShaRef(sha))
            /\ detectorCalls' = Min(detectorCalls + 1, MAX_RETRIES + 1)
            /\ Goto("detect")
       ELSE /\ Goto("list")
            /\ UNCHANGED <<d, detectorCalls>>
    /\ walk' = [walk EXCEPT !.same = FALSE, !.emptyRange = FALSE,
                            !.tried = IF targetSha # Undefined
                                      THEN @ \cup {targetSha} ELSE @]
    /\ UNCHANGED <<lastSha, tags, memo, lastCall>>
    /\ UNCHANGED notGen

\* changelog.ts 408, 617-620: the ceiling is reached
GiveUp_Throws ==
    /\ gpc = "loop"
    /\ ~LoopCond
    /\ Throw
    /\ UNCHANGED <<lastSha, tags, detectorCalls, d, memo, lastCall, walk>>
    /\ UNCHANGED notGen
GiveUp ==
    /\ gpc = "loop"
    /\ ~LoopCond
    /\ ReturnValue(Unable)
    /\ UNCHANGED <<lastSha, tags, detectorCalls, d, memo, lastCall, walk>>
    /\ UNCHANGED notGen

\* changelog.ts 417-436, 455: the detector has returned
OnVerdict ==
    /\ gpc = "detect"
    /\ d.pc = "returned"
    /\ d' = IdleFrame
    /\ IF d.verdict
       THEN LET currentTagIndex == findIndex(tags, sha)
                previousTagIndex == findIndex(tags, targetSha)
                nextTagIndex == Max(previousTagIndex, currentTagIndex) + 1
            IN  IF /\ currentTagIndex >= 0
                   /\ previousTagIndex >= 0
                   /\ nextTagIndex < Len(tags)
                THEN Retry(TagAt(nextTagIndex).commit.sha)
                ELSE Goto("parent")
       ELSE Goto("range")
    /\ walk' = [walk EXCEPT !.same = d.verdict,
                            !.different = @ \/ ~d.verdict,
                            !.at = IF ~walk.different /\ ~d.verdict
                                   THEN retryCount ELSE @]
    /\ UNCHANGED <<lastSha, tags, detectorCalls, memo, lastCall>>
    /\ UNCHANGED notGen

\* changelog.ts 437-455: the first parent of the base
GetParent ==
    /\ gpc = "parent"
    /\ \E r \in ParentAnswers :
         /\ lastCall' = Called("getCommit", r)
         /\ IF r.ok /\ Len(r.parents) > 0
            THEN Retry(r.parents[1])
            ELSE Goto("range")
    /\ UNCHANGED <<lastSha, tags, detectorCalls, d, memo, walk>>
    /\ UNCHANGED notGen

\* changelog.ts 494-614: the commits are processed; then another retry, or
\* one of the two results
Build_LinkFromTarget(range) ==
    LET built == Loop(config, NoGroups, range)
        currentTagIndex == findIndex(tags, targetSha)
    IN  IF /\ built.processedCommitCount = 0
           /\ retryCount > 0
           /\ retryCount < MAX_RETRIES
           /\ currentTagIndex >= 0
           /\ currentTagIndex + 1 < Len(tags)
        THEN Retry(TagAt(currentTagIndex + 1).commit.sha)
        ELSE IF built.processedCommitCount = 0 /\ lastSha # Undefined
        THEN ReturnValue(NoSignificantChanges(targetSha, sha))
        ELSE ReturnValue(formatChangelog(built.typeGroups, config.typeMap,
                                         config.defaultType))
Build(range) ==
    LET built == Loop(config, NoGroups, range)
        currentTagIndex == findIndex(tags, targetSha)
    IN  IF /\ built.processedCommitCount = 0
           /\ retryCount > 0
           /\ retryCount < MAX_RETRIES
           /\ currentTagIndex >= 0
           /\ currentTagIndex + 1 < Len(tags)
        THEN Retry(TagAt(currentTagIndex + 1).commit.sha)
        ELSE IF built.processedCommitCount = 0 /\ lastSha # Undefined
        THEN ReturnValue(NoSignificantChanges(lastSha, sha))
        ELSE ReturnValue(formatChangelog(built.typeGroups, config.typeMap,
                                         config.defaultType))

\* changelog.ts 457-481, 494-614: the commits of the range base...head
RangeCompare ==
    /\ gpc = "range"
    /\ \E r \in CommitsAnswers :
         /\ lastCall' = Called("compareCommits", r)
         /\ walk' = [walk EXCEPT !.emptyRange = r.ok /\ r.commits = <<>>]
         /\ IF r.ok THEN Build(r.commits)
            ELSE IF initialAttemptWithLastSha THEN FallBack
            ELSE Throw
    /\ UNCHANGED <<lastSha, tags, detectorCalls, d, memo>>
    /\ UNCHANGED notGen

\* changelog.ts 483-492, 494-614: all commits
ListCommits ==
    /\ gpc = "list"
    /\ \E r \in CommitsAnswers :
         /\ lastCall' = Called("listCommits", r)
         /\ IF r.ok THEN Build(r.commits) ELSE Throw
    /\ UNCHANGED <<lastSha, tags, detectorCalls, d, memo, walk>>
    /\ UNCHANGED notGen


-----------------------------------------------------------------------------
(* The specifications.                                                     *)

TagRest ==
    /\ tpc = "idle"
    /\ semverOn = FALSE
    /\ release = NullVersion
    /\ semVer = NullVersion
    /\ tagInfo = [releaseId |-> Latest, prerelease |-> FALSE, previous |-> NoPrevious]
    /\ data = <<>>
    /\ more = FALSE
    /\ seen = <<>>
    /\ pulled = 0
    /\ script = NoScript

TagIdle == sha = 1 /\ TagRest

InitTag ==
    /\ tpc = "start"
    /\ \/ /\ script = NoScript
          /\ sha \in Shas
          /\ \/ semverOn = TRUE /\ release \in FreeVersions \cup {NullVersion}
             \/ semverOn = FALSE /\ release \in {NullVersion, StableRelease}
       \/ /\ script = Scripted(BetaList)
          /\ sha = 1 /\ semverOn = TRUE /\ release = BetaRelease
       \/ /\ script = Scripted(StableList)
          /\ sha = 1 /\ semverOn = TRUE /\ release = StableRelease
    /\ semVer = NullVersion
    /\ tagInfo = [releaseId |-> Latest, prerelease |-> FALSE, previous |-> NoPrevious]
    /\ data = <<>>
    /\ more = TRUE
    /\ seen = <<>>
    /\ pulled = 0
    /\ DetIdle
    /\ GenIdle
    /\ AggIdle

NextTag == TagStart \/ FetchPage \/ FetchFails \/ ExamineTag \/ PageDone

SpecTag == InitTag /\ [][NextTag]_vars

(* SpecDet: one call on (a, b), then the call on (b, a), against a host     *)
(* that is a deterministic function of the request with mirrored compares. *)

(* The pairs of arguments: shas, tags and branches with and without the    *)
(* refs/ prefixes, the same reference twice, development tags one patch    *)
(* apart, further apart, of different minor versions, and a development    *)
(* tag against another reference.                                          *)
DetPairs ==
    {<<Ref("", Plain(1)), Ref("", Plain(2))>>,
     <<Ref("", Plain(1)), Ref("", Plain(1))>>,
     <<Ref("refs/tags/", Plain(1)), Ref("refs/heads/", Plain(2))>>,
     <<Ref("refs/tags/", Plain(1)), Ref("", Plain(1))>>,
     <<Ref("", Dev(1, 0, 1)), Ref("", Dev(1, 0, 2))>>,
     <<Ref("", Dev(1, 0, 3)), Ref("", Dev(1, 0, 1))>>,
     <<Ref("", Dev(1, 0, 1)), Ref("", Dev(1, 1, 2))>>,
     <<Ref("", Dev(1, 0, 1)), Ref("", Dev(1, 0, 1))>>,
     <<Ref("refs/tags/", Dev(1, 0, 1)), Ref("refs/heads/", Dev(1, 0, 3))>>,
     <<Ref("", Dev(1, 0, 1)), Ref("refs/heads/", Plain(1))>>}

InitDet ==
    /\ \E p \in DetPairs : d = Enter(p[1], p[2])
    /\ memo = [on |-> TRUE, log |-> {}]
    /\ phase = 1
    /\ first = FALSE
    /\ TagIdle
    /\ GenIdle
    /\ AggIdle

\* the first call has returned: call again with the arguments swapped
SwapCall ==
    /\ phase = 1
    /\ d.pc = "returned"
    /\ first' = d.verdict
    /\ phase' = 2
    /\ d' = Enter(d.ref.head, d.ref.base)
    /\ UNCHANGED memo
    /\ UNCHANGED notDet

NextDet == DetStep \/ SwapCall

SpecDet == InitDet /\ [][NextDet]_vars

(* Spec: one run of generateChangelog.  The references it passes to the     *)
(* detector are commit shas, so of the detector's steps only those of the  *)
(* checks made for all references occur.                                   *)
Init ==
    /\ gpc = "start"
    /\ lastSha \in {Undefined} \cup Shas
    /\ sha \in Shas
    /\ tags = <<>>
    /\ targetSha = Undefined
    /\ initialAttemptWithLastSha = FALSE
    /\ retryCount = 0
    /\ result = NoResult
    /\ detectorCalls = 0
    /\ fallbacks = 0
    /\ lastCall = NoCall
    /\ walk = NoWalk
    /\ TagRest
    /\ DetIdle
    /\ AggIdle

Next ==
    \/ ListTags
    \/ Iterate
    \/ GiveUp
    \/ StdStep
    \/ OnVerdict
    \/ GetParent
    \/ RangeCompare
    \/ ListCommits

Spec == Init /\ [][Next]_vars

\* every awaited call is answered or fails, and the code then goes on
FairSpec == Spec /\ WF_vars(Next)

(* generateChangelog for a release with a semantic version, over the tag   *)
(* lists of the two examples: the tags have versions, the release is at    *)
(* sha 1; a third host has only the release and the tag before it.        *)
InitWalk ==
    /\ gpc = "start"
    /\ lastSha \in {Undefined} \cup Shas
    /\ sha = 1
    /\ tags = <<>>
    /\ targetSha = Undefined
    /\ initialAttemptWithLastSha = FALSE
    /\ retryCount = 0
    /\ result = NoResult
    /\ detectorCalls = 0
    /\ fallbacks = 0
    /\ lastCall = NoCall
    /\ walk = NoWalk
    /\ tpc = "idle"
    /\ semverOn = TRUE
    /\ \/ script = Scripted(BetaList) /\ release = BetaRelease
       \/ script = Scripted(StableList) /\ release = StableRelease
       \/ script = Scripted(SubSeq(StableList, 1, 2)) /\ release = StableRelease
    /\ semVer = NullVersion
    /\ tagInfo = [releaseId |-> Latest, prerelease |-> FALSE, previous |-> NoPrevious]
    /\ data = <<>>
    /\ more = FALSE
    /\ seen = <<>>
    /\ pulled = 0
    /\ DetIdle
    /\ AggIdle

SpecWalk == InitWalk /\ [][Next]_vars

(* SpecAgg: the loop over one list of commits and formatChangelog, under   *)
(* one configuration.                                                      *)

\* the configurations: every choice of the four switches, the second
\* mapping, and a default type that is also a display type of the mapping
Configs ==
    {Config(TypeMap1, "Other", cl, pl, ma, al) : cl, pl, ma, al \in BOOLEAN} \cup
    {Config(TypeMap2, "Other", TRUE, TRUE, TRUE, FALSE),
     Config(TypeMap2, "Features", TRUE, TRUE, TRUE, TRUE),
     Config(TypeMap1, "Features", TRUE, FALSE, TRUE, FALSE)}

\* a commit before its place in the list gives it a sha
Message(login, parsed) == [login |-> login, parsed |-> parsed]

(* The messages: one commit and its variations of pull request, author,    *)
(* breaking mark, description, scope and type; types that the mappings do  *)
(* not have, and the empty type; commits flagged "ignore"; messages the    *)
(* parser throws on or finds invalid; merge commits and reverts.           *)
CommitPool ==
    {Message("ann", Parsed("feat", "", "d1", FALSE, 0, "")),
     Message("ann", Parsed("feat", "", "d1", FALSE, 7, "")),
     Message("bob", Parsed("feat", "", "d1", FALSE, 0, "")),
     Message("", Parsed("feat", "", "d1", FALSE, 0, "")),
     Message("ann", Parsed("feat", "", "d1", TRUE, 0, "")),
     Message("ann", Parsed("feat", "", "d2", FALSE, 0, "")),
     Message("ann", Parsed("feat", "api", "d1", FALSE, 0, "")),
     Message("ann", Parsed("feat", "api", "d2", TRUE, 0, "")),
     Message("bob", Parsed("feat", "core", "d1", FALSE, 0, "")),
     Message("ann", Parsed("fix", "", "d1", FALSE, 0, "")),
     Message("bob", Parsed("fix", "api", "d2", TRUE, 7, "")),
     Message("ann", Parsed("perf", "", "d1", FALSE, 0, "")),
     Message("ann", Parsed("chore", "", "d1", FALSE, 0, "")),
     Message("ann", Parsed("", "", "d1", FALSE, 0, "")),
     Message("ann", Parsed("feat", "", "d1", FALSE, 0, "ignore")),
     Message("bob", Parsed("fix", "api", "d2", FALSE, 7, "ignore")),
     Message("ann", ParserThrows),
     Message("ann", ParsedNull),
     Message("ann", AsMerge(Parsed("", "", "d1", FALSE, 7, ""))),
     Message("ann", AsMerge(Parsed("feat", "", "d1", FALSE, 0, ""))),
     Message("ann", AsRevert(Parsed("feat", "", "d1", FALSE, 0, ""))),
     Message("bob", AsRevert(Parsed("fix", "api", "d2", FALSE, 7, "")))}

\* the messages of the commits of one log line: of two authors and of no
\* author, with and without pull request
SameLine ==
    {Message("ann", Parsed("feat", "", "d1", FALSE, 0, "")),
     Message("ann", Parsed("feat", "", "d1", FALSE, 7, "")),
     Message("bob", Parsed("feat", "", "d1", FALSE, 0, "")),
     Message("", Parsed("feat", "", "d1", FALSE, 0, ""))}

\* the lists of commits: the i-th commit has sha i.  The lists of any
\* messages, and longer lists of the commits of one log line
CommitLists ==
    {[i \in DOMAIN ms |-> Commit(i, ms[i].login, ms[i].parsed)] :
        ms \in SeqsUpTo(CommitPool, MaxCommits) \cup
               [1..3 -> SameLine] \cup [1..4 -> SameLine]}

InitAgg ==
    /\ config \in Configs
    /\ commits \in CommitLists
    /\ locals = NoGroups
    /\ apc = "loop"
    /\ changelog = NoChangelog
    /\ TagIdle
    /\ DetIdle
    /\ GenIdle

NextAgg == LoopStep \/ Render

SpecAgg == InitAgg /\ [][NextAgg]_vars

-----------------------------------------------------------------------------
(* Properties of generateChangelog (checked under Spec and FairSpec).      *)

GenRunning == gpc \in {"start", "loop", "detect", "parent", "range", "list"}
GenEnded == gpc \in {"returned", "thrown"}

\* C1: generateChangelog terminates whatever the host answers: from every
\* state of a run that has not ended, a return or a throw is eventually
\* reached.
C1_Terminates == GenRunning ~> GenEnded

\* a run that retried, then fell back to the full listing, and returned
C1_Witness ==
    /\ gpc = "returned"
    /\ retryCount > 0
    /\ lastSha # Undefined /\ ~initialAttemptWithLastSha
    /\ result.kind = "changelog"

\* C2: the retry counter never exceeds 5 and the detector is called at most
\* 5 times in a run.
C2_AtMostFive ==
    /\ retryCount <= 5
    /\ detectorCalls <= 5

\* the fifth call of the detector has returned and the fifth retry was made
C2_Witness ==
    /\ detectorCalls = 5
    /\ retryCount = 5

\* C3: once the retry counter is at the ceiling, generateChangelog is at the
\* head of the loop or has returned the 'Unable to generate changelog' text:
\* it has not thrown and is in no further iteration; and it does return
\* that text.
C3_CeilingReturnsUnable ==
    /\ [](retryCount = MAX_RETRIES =>
            \/ gpc = "loop"
            \/ gpc = "returned" /\ result = Unable)
    /\ (retryCount = MAX_RETRIES) ~> (gpc = "returned" /\ result = Unable)

\* the text is returned after five retries, the last of them to a parent
C3_Witness ==
    /\ gpc = "returned"
    /\ result = Unable
    /\ retryCount = MAX_RETRIES
    /\ \A i \in DOMAIN tags : tags[i].commit.sha # targetSha

\* C12: a failed range compare is answered by the fallback to the full
\* listing, which happens at most once in a run; after it there is no base,
\* so no detector call and no range compare follows; and a failed full
\* listing ends the run with the error thrown.
C12_FallbackOnce ==
    /\ fallbacks <= 1
    /\ (lastCall.op = "compareCommits" /\ ~lastCall.ok) =>
         /\ fallbacks = 1
         /\ gpc \in {"loop", "list"}
    /\ fallbacks = 1 =>
         /\ gpc \in {"loop", "list", "returned", "thrown"}
         /\ targetSha = Undefined
         /\ ~initialAttemptWithLastSha
         /\ d = IdleFrame
    /\ (lastCall.op = "listCommits" /\ ~lastCall.ok) => gpc = "thrown"

\* after a retry the range compare failed, and then the full listing failed
C12_Witness ==
    /\ fallbacks = 1
    /\ retryCount > 0
    /\ lastCall.op = "listCommits" /\ ~lastCall.ok
    /\ gpc = "thrown"

(* C13: whenever a build finishes with no entry left after the filtering,  *)
(* generateChangelog returns the "No significant changes" text and never   *)
(* an empty document, whether or not lastSha was supplied.  A document has *)
(* a heading for each of its type groups, so the empty document is the one *)
(* of no entry.                                                            *)
C13_NeverEmptyDocument ==
    (gpc = "returned" /\ result.kind = "changelog") => result.lines # <<>>

\* C14: the 'No significant changes' result is returned only when lastSha
\* was supplied, and its compare link goes from lastSha to the current sha,
\* wherever the retries have moved the base.
C14_LinkFromLastSha ==
    (gpc = "returned" /\ result.kind = "noSignificant") =>
        /\ lastSha # Undefined
        /\ result = NoSignificantChanges(lastSha, sha)

\* the result after a retry has moved the base away from lastSha
C14_Witness ==
    /\ gpc = "returned" /\ result.kind = "noSignificant"
    /\ retryCount > 0
    /\ targetSha \notin {lastSha, Undefined}

-----------------------------------------------------------------------------
(* Properties of areTagsEffectivelyIdentical (checked under SpecDet).      *)

baseRef == d.ref.base
headRef == d.ref.head

\* the ok answers given so far to the requests of one operation
OkAnswers(op) == {e \in memo.log : e.req.op = op /\ e.ans.ok}

\* the getRef requests the detector makes for a reference
RefReqs(ref) ==
    {RefReq("tags", normalizeRef(ref)), RefReq("heads", normalizeRef(ref)),
     RefReq("tags", StripPrefix(ref, "refs/tags/")),
     RefReq("heads", StripPrefix(ref, "refs/heads/"))}

\* what the host has said a reference is: the objects it points to, the
\* commits these are or (as annotated tags) point to, the trees of these
ObjectsOf(ref) == {e.ans.sha : e \in {x \in OkAnswers("getRef") : x.req \in RefReqs(ref)}}
CommitsOf(ref) ==
    ObjectsOf(ref) \cup
    {e.ans.sha : e \in {x \in OkAnswers("getTag") : x.req.tag_sha \in ObjectsOf(ref)}}
TreesOf(ref) ==
    {e.ans.tree : e \in {x \in OkAnswers("getCommit") :
                            \E c \in CommitsOf(ref) : x.req.commit_sha = ShaRef(c)}}

\* some answer of the host proves the two references equivalent
Proved ==
    \/ \E e \in OkAnswers("compareCommits") :
          \/ e.ans.ahead_by = 0 /\ e.ans.behind_by = 0
          \/ e.ans.files = 0
          \/ e.ans.status = "identical"
    \/ CommitsOf(baseRef) \cap CommitsOf(headRef) # {}
    \/ TreesOf(baseRef) \cap TreesOf(headRef) # {}

\* C4: a call never ends but by returning a boolean (at every position where
\* it awaits the host it goes on whatever the answer, failure included); it
\* returns true only if some answer proved the references equivalent, and so
\* returns false when every host call failed.
C4_FailSafe ==
    /\ d.pc \in DetAwaiting \cup {"returned"}
    /\ d.pc \in DetAwaiting => ENABLED DetStep
    /\ d.pc = "returned" =>
         /\ d.verdict \in BOOLEAN
         /\ d.verdict => Proved
         /\ (\A e \in memo.log : ~e.ans.ok) => ~d.verdict

\* development tags one patch apart: every call has failed, in the checks of
\* development tags and in the checks made for all references
C4_Witness ==
    /\ phase = 1
    /\ d.pc = "returned" /\ ~d.verdict
    /\ \A e \in memo.log : ~e.ans.ok
    /\ \E e \in memo.log : e.req = RefReq("heads", Ref("", Dev(1, 0, 1)))
    /\ \E e \in memo.log : e.req.op = "getCommit"

\* C5: against a deterministic host with mirrored compares, the call on
\* (b, a) returns what the call on (a, b) returned.
C5_Symmetric ==
    (phase = 2 /\ d.pc = "returned") => d.verdict = first

\* both calls returned true on a compare that is not its own mirror
C5_Witness ==
    /\ phase = 2 /\ d.pc = "returned" /\ d.verdict
    /\ baseRef # headRef
    /\ \E e \in OkAnswers("compareCommits") : e.ans.ahead_by # e.ans.behind_by

-----------------------------------------------------------------------------
(* Properties of getTagInfo (checked under SpecTag).                       *)

\* semver mode is on and the release name parsed
SemverMode == semverOn /\ release # NullVersion

previous == tagInfo.previous
previousVersion == parseSemVer(previous.name)

\* The eligibility rules of the resolver for one tag, stated from the
\* release (not from the loop body): another commit than the release, and in
\* semver mode a semantic version strictly below the release's, on the
\* release's prerelease channel (none for a stable release).
Channel(v) == IF Len(v.prerelease) > 0 THEN <<v.prerelease[1]>> ELSE <<>>

Eligible(tag) ==
    /\ tag.commit.sha # sha
    /\ SemverMode =>
         /\ parseSemVer(tag.name) # NullVersion
         /\ compare(parseSemVer(tag.name), release) < 0
         /\ Channel(parseSemVer(tag.name)) = Channel(release)

\* C6: in semver mode with a prerelease release, the selected tag carries a
\* prerelease whose first identifier is the release's first identifier; for
\* release 1.2.0-beta.1 over [1.2.0-beta.1 (current), 1.2.0-beta.0, 1.1.0,
\* 1.2.0-alpha.0] the result is 1.2.0-beta.0.
C6_PrereleaseSameChannel ==
    /\ (SemverMode /\ Len(release.prerelease) > 0 /\ previous.present) =>
         /\ previousVersion # NullVersion
         /\ Len(previousVersion.prerelease) > 0
         /\ previousVersion.prerelease[1] = release.prerelease[1]
    /\ (script = Scripted(BetaList) /\ tpc = "done") =>
         previous = Previous(TagName(V(1, 2, 0, <<Beta, Num(0)>>)), 2)

C6_Witness ==
    /\ script = Scripted(BetaList)
    /\ tpc = "done"
    /\ previous.present

\* C7: in semver mode with a stable release, the selected tag carries no
\* prerelease; for release 1.2.0 over [1.2.0 (current), 1.1.0, 1.1.0-rc.1,
\* 1.0.0] the result is 1.1.0.
C7_StableTakesStable ==
    /\ (SemverMode /\ Len(release.prerelease) = 0 /\ previous.present) =>
         /\ previousVersion # NullVersion
         /\ Len(previousVersion.prerelease) = 0
    /\ (script = Scripted(StableList) /\ tpc = "done") =>
         previous = Previous(TagName(V(1, 1, 0, <<>>)), 2)

\* a stable release that skipped a prerelease tag of an older version on
\* another commit, and then selected a stable one
C7_Witness ==
    /\ ~script.on
    /\ SemverMode /\ Len(release.prerelease) = 0
    /\ tpc = "done" /\ previous.present
    /\ \E j \in 1..Len(seen) - 1 :
         /\ seen[j].commit.sha # sha
         /\ parseSemVer(seen[j].name) # NullVersion
         /\ Len(parseSemVer(seen[j].name).prerelease) > 0
         /\ compare(parseSemVer(seen[j].name), release) < 0

\* C8: in semver mode the selected tag parses as a semantic version, its
\* version is strictly less than the release's, and its commit is not the
\* release's commit.
C8_OlderVersionOtherCommit ==
    (semverOn /\ previous.present) =>
        /\ previousVersion # NullVersion
        /\ compare(previousVersion, release) < 0
        /\ compare(release, previousVersion) > 0
        /\ previous.sha # sha

\* a tag was selected after a tag that does not parse, a tag of the release's
\* commit and a tag that is not older were skipped
C8_Witness ==
    /\ semverOn /\ previous.present /\ tpc = "done"
    /\ \E j \in 1..Len(seen) - 1 :
         \/ parseSemVer(seen[j].name) = NullVersion
         \/ seen[j].commit.sha = sha
         \/ compare(parseSemVer(seen[j].name), release) >= 0

\* C9: the selected tag is the first eligible tag of the stream: it is the
\* tag examined last, it is eligible and no tag before it is; and getTagInfo
\* returns without a previous tag exactly when the stream is exhausted and
\* none of its tags is eligible.
C9_FirstQualifying ==
    /\ previous.present =>
         /\ Len(seen) > 0
         /\ previous = Previous(seen[Len(seen)].name, seen[Len(seen)].commit.sha)
         /\ Eligible(seen[Len(seen)])
         /\ \A j \in 1..Len(seen) - 1 : ~Eligible(seen[j])
    /\ (tpc = "done" /\ ~previous.present) =>
         /\ ~more /\ data = <<>>
         /\ \A j \in 1..Len(seen) : ~Eligible(seen[j])
    /\ (tpc = "done" /\ \E j \in 1..Len(seen) : Eligible(seen[j])) =>
         previous.present

\* the selected tag is not the highest eligible version: a later tag of the
\* same page is eligible and has a higher version
C9_Witness ==
    /\ SemverMode /\ tpc = "done" /\ previous.present
    /\ \E k \in 1..Len(data) :
         /\ Eligible(data[k])
         /\ compare(parseSemVer(data[k].name), previousVersion) > 0

\* C10: in non-semver mode the selected tag is the first tag of the stream
\* whose commit is not the release's commit, whatever its name; without such
\* a tag nothing is selected.
C10_NonSemverFirstOtherCommit ==
    ~semverOn =>
        /\ previous.present =>
             /\ previous.sha # sha
             /\ Len(seen) > 0
             /\ previous = Previous(seen[Len(seen)].name, seen[Len(seen)].commit.sha)
             /\ \A j \in 1..Len(seen) - 1 : seen[j].commit.sha = sha
        /\ (tpc = "done" /\ ~previous.present) =>
             \A j \in 1..Len(seen) : seen[j].commit.sha = sha

\* a tag whose name is no semantic version is selected, after a tag of the
\* release's commit was skipped
C10_Witness ==
    /\ ~semverOn /\ tpc = "done" /\ previous.present
    /\ previousVersion = NullVersion
    /\ Len(seen) > 1

\* C11: in semver mode with a release name that is no semantic version,
\* getTagInfo throws at once: it never requests a tag page, examines no tag
\* and returns no TagInfo; the tagInfo it had begun has no previous.
C11_UnparsableReleaseThrows ==
    (semverOn /\ release = NullVersion) =>
        /\ tpc \in {"start", "thrown"}
        /\ pulled = 0 /\ seen = <<>> /\ data = <<>>
        /\ semVer = NullVersion
        /\ ~previous.present

\* the error has been thrown
C11_Witness ==
    /\ semverOn /\ release = NullVersion
    /\ tpc = "thrown"

-----------------------------------------------------------------------------
(* Properties of the loop over the commits and of formatChangelog.         *)

\* the commits the loop has gone through
DoneCommits == SubSeq(commits, 1, locals.commitCount)

\* the list without the commits that Drop holds of
Remaining(Drop(_), range) == SelectSeq(range, LAMBDA c : ~Drop(c))

\* the locals are those the loop leaves for this list
BuiltAs(range) ==
    LET built == Loop(config, NoGroups, range)
    IN  /\ locals.typeGroups = built.typeGroups
        /\ locals.processedCommitCount = built.processedCommitCount

\* the document is the one of this list
RenderedAs(range) ==
    changelog = formatChangelog(Loop(config, NoGroups, range).typeGroups,
                                config.typeMap, config.defaultType)

\* the commits Drop holds of leave no trace: not in the locals while the
\* loop runs, not in the document
OutputAsWithout(Drop(_)) ==
    /\ apc # "thrown"
    /\ BuiltAs(Remaining(Drop, DoneCommits))
    /\ apc = "returned" => RenderedAs(Remaining(Drop, commits))

\* the kinds of commits
Unparsable(c) == c.parsed.outcome \in {"throws", "null"}
IsParsed(c) == c.parsed.outcome = "parsed"
MergeOrRevert(c) == IsParsed(c) /\ (c.parsed.merge \/ c.parsed.revert)
Ignored(c) == IsParsed(c) /\ c.parsed.flag = "ignore"
UnknownType(c) ==
    /\ IsParsed(c)
    /\ c.parsed.type = "" \/ ~InTypeMap(config.typeMap, c.parsed.type)
\* the commits that are entered into typeGroups
Entered(c) == IsParsed(c) /\ ~Skipped(config, c.parsed)

\* the document has lines
HasLines == apc = "returned" /\ changelog.lines # <<>>

(* C15: a commit whose message the parser throws on, or finds invalid,     *)
(* never aborts the build and contributes to no type group: the locals     *)
(* and the document are those of the list without these commits.           *)
C15_ParseFailuresSkipped == OutputAsWithout(Unparsable)

\* a document with lines, of a list where a later commit was entered after
\* the parser threw on the first
C15_Witness ==
    /\ HasLines
    /\ Len(commits) = 2
    /\ commits[1].parsed.outcome = "throws"
    /\ Entered(commits[2])

(* C16: merge commits and reverts create no group and no entry and add no  *)
(* reference, and are not in the document: the locals and the document     *)
(* are those of the list without them.                                     *)
C16_MergesAndRevertsExcluded == OutputAsWithout(MergeOrRevert)

\* a document with lines, of a list with an entered commit and then a
\* revert of the same type, scope and description
C16_Witness ==
    /\ HasLines
    /\ Len(commits) = 2
    /\ Entered(commits[1])
    /\ commits[2].parsed = AsRevert(commits[1].parsed)

(* C17: a commit whose parsed flag is "ignore" is excluded: it creates no  *)
(* entry and adds no reference to an existing one, so the locals and the   *)
(* document are those of the list without these commits.                   *)
C17_IgnoredExcluded == OutputAsWithout(Ignored)

C19_FallbackSelectable ==
    \A i \in DOMAIN commits :
        (UnknownType(commits[i]) /\ ~MergeOrRevert(commits[i])
            /\ commits[i].parsed.type # "") =>
        \E cfg \in Configs :
            /\ cfg.typeMap = config.typeMap
            /\ cfg.defaultType = config.defaultType
            /\ TypeIndex(Loop(cfg, NoGroups, <<commits[i]>>).typeGroups,
                         cfg.defaultType) # 0

\* the places of the log lines of typeGroups, and what they are found by
LogPlaces(groups) ==
    UNION {UNION {{<<t, s, l>> : l \in DOMAIN groups[t].scopes[s].logs} :
                    s \in DOMAIN groups[t].scopes} : t \in DOMAIN groups}
LogAt(groups, place) == groups[place[1]].scopes[place[2]].logs[place[3]]
KeyAt(groups, place) ==
    <<groups[place[1]].type, groups[place[1]].scopes[place[2]].scope,
      LogAt(groups, place).description>>
KeyOf(c) == <<Lookup(config.typeMap, c.parsed.type), c.parsed.scope,
              c.parsed.description>>

\* no two type groups of a type, scope groups of a scope within a type
\* group, log lines of a description within a scope group
NoDuplicates(groups) ==
    /\ \A t, u \in DOMAIN groups : groups[t].type = groups[u].type => t = u
    /\ \A t \in DOMAIN groups : \A s, r \in DOMAIN groups[t].scopes :
         groups[t].scopes[s].scope = groups[t].scopes[r].scope => s = r
    /\ \A t \in DOMAIN groups : \A s \in DOMAIN groups[t].scopes :
         \A l, m \in DOMAIN groups[t].scopes[s].logs :
            groups[t].scopes[s].logs[l].description =
                groups[t].scopes[s].logs[m].description => l = m

\* the step enters a commit whose type, scope and description has a line
EntersMatching ==
    /\ apc = "loop"
    /\ locals.commitCount < Len(commits)
    /\ LET c == commits[locals.commitCount + 1]
       IN  /\ Entered(c)
           /\ \E place \in LogPlaces(locals.typeGroups) :
                KeyAt(locals.typeGroups, place) = KeyOf(c)

\* the step leaves the lines as they are, but for the references of the
\* line of the commit, which do not get fewer
OnlyReferenceAdded ==
    LET c == commits[locals.commitCount + 1]
        old == locals.typeGroups
        new == locals'.typeGroups
    IN  /\ LogPlaces(new) = LogPlaces(old)
        /\ \A place \in LogPlaces(old) :
             /\ KeyAt(new, place) = KeyAt(old, place)
             /\ LogAt(new, place).breaking = LogAt(old, place).breaking
             /\ IF KeyAt(old, place) = KeyOf(c)
                THEN Len(LogAt(new, place).references) >=
                        Len(LogAt(old, place).references)
                ELSE LogAt(new, place).references = LogAt(old, place).references

(* C20: after any sequence of commits the tree has no duplicates: the      *)
(* types of the type groups, the scopes within a type group and the        *)
(* descriptions within a scope group are pairwise distinct; a commit that  *)
(* matches a line by type, scope and description only adds its reference   *)
(* and makes no new line.                                                  *)
C20_NoDuplicates ==
    /\ [](NoDuplicates(locals.typeGroups))
    /\ [][EntersMatching => OnlyReferenceAdded]_vars

\* two commits were entered and the tree has one line, with both
\* references
C20_Witness ==
    /\ locals.processedCommitCount = 2
    /\ Cardinality(LogPlaces(locals.typeGroups)) = 1
    /\ \E place \in LogPlaces(locals.typeGroups) :
         Len(LogAt(locals.typeGroups, place).references) = 2

\* the reference string of one commit alone: its link, then its mention
Individual(c) ==
    Reference(config, c) \o
    (IF c.login # "" /\ config.shouldMentionAuthors THEN <<Mention(c.login)>>
     ELSE <<>>)

\* the reference strings, in arrival order, of the commits gone through
\* that were entered under this type, scope and description; a commit
\* without link and mention has none
Individuals(key) ==
    LET matching == SelectSeq(DoneCommits, LAMBDA c : Entered(c) /\ KeyOf(c) = key)
    IN  SelectSeq([i \in DOMAIN matching |-> Individual(matching[i])],
                  LAMBDA str : str # <<>>)

\* the strings of a run of commits that end with the same mention are one
\* string: their links joined by "&", then the mention
RECURSIVE Merged(_)
Merged(strs) ==
    IF Len(strs) <= 1 THEN strs
    ELSE LET str == Head(strs)
             rest == Merged(Tail(strs))
         IN  IF str[Len(str)].part = "by" /\ str[Len(str)] = rest[1][Len(rest[1])]
             THEN <<SubSeq(str, 1, Len(str) - 1) \o <<Amp>> \o rest[1]>> \o Tail(rest)
             ELSE <<str>> \o rest

(* C21 as stated: the commits of one type, scope and description have one  *)
(* log line, whose references are the reference strings of the commits,    *)
(* one after the other in arrival order.                                   *)
C21_ReferencesConcatenated ==
    \A place \in LogPlaces(locals.typeGroups) :
        LogAt(locals.typeGroups, place).references =
            Individuals(KeyAt(locals.typeGroups, place))

(* C21, amended: the commits of one type, scope and description have       *)
(* exactly one log line; its references are the reference strings of the   *)
(* commits in arrival order, but a commit whose mention of its author ends *)
(* the reference string before it is merged into that string, as "&" and   *)
(* its reference, and adds no string.                                      *)
C21_ReferencesMerged ==
    /\ NoDuplicates(locals.typeGroups)
    /\ \A i \in DOMAIN DoneCommits :
         Entered(commits[i]) =>
            \E place \in LogPlaces(locals.typeGroups) :
                KeyAt(locals.typeGroups, place) = KeyOf(commits[i])
    /\ \A place \in LogPlaces(locals.typeGroups) :
         LogAt(locals.typeGroups, place).references =
            Merged(Individuals(KeyAt(locals.typeGroups, place)))

\* two commits of one author were entered into one line, which has one
\* reference string, with both links
C21_Witness ==
    /\ locals.processedCommitCount = 2
    /\ config.shouldIncludeCommitLinks
    /\ \E place \in LogPlaces(locals.typeGroups) :
         LET references == LogAt(locals.typeGroups, place).references
         IN  /\ Len(references) = 1
             /\ \E i \in DOMAIN references[1] : references[1][i] = Amp
             /\ \E i, j \in DOMAIN references[1] :
                  /\ i < j
                  /\ references[1][i].part \in {"pr", "commit"}
                  /\ references[1][j].part \in {"pr", "commit"}

\* the place of a display type in the declared order: the values of typeMap
\* in declaration order, then the default type
Priority(type) ==
    LET declared == Values(config.typeMap) \o <<config.defaultType>>
    IN  First({i \in DOMAIN declared : declared[i] = type})

\* the places of the headings in the document
Headings == {i \in DOMAIN changelog.lines : changelog.lines[i].line = "heading"}

(* C22: the headings of the document are in the declared order of the      *)
(* display types (the values of typeMap in declaration order, each once,   *)
(* then the default type if it is none of them), whatever the order in     *)
(* which the commits of the types arrived.                                 *)
C22_HeadingsInDeclaredOrder ==
    apc = "returned" =>
        \A i, j \in Headings :
            i < j => /\ Priority(changelog.lines[i].type) > 0
                     /\ Priority(changelog.lines[i].type) <
                            Priority(changelog.lines[j].type)

\* a document of two headings whose types arrived in the other order
C22_Witness ==
    /\ apc = "returned"
    /\ Cardinality(Headings) = 2
    /\ Len(locals.typeGroups) = 2
    /\ Priority(locals.typeGroups[1].type) > Priority(locals.typeGroups[2].type)

(* C23: the document has no heading without an entry under it: a heading   *)
(* is there only for a display type with at least one log line, and the    *)
(* lines after it, up to its first log line, are scope lines.              *)
C23_NoEmptyHeading ==
    /\ \A t \in DOMAIN locals.typeGroups :
         /\ locals.typeGroups[t].scopes # <<>>
         /\ \A s \in DOMAIN locals.typeGroups[t].scopes :
              locals.typeGroups[t].scopes[s].logs # <<>>
    /\ apc = "returned" =>
         \A i \in Headings :
            /\ TypeIndex(locals.typeGroups, changelog.lines[i].type) # 0
            /\ \E j \in DOMAIN changelog.lines :
                 /\ j > i
                 /\ changelog.lines[j].line = "log"
                 /\ \A k \in i + 1..j - 1 : changelog.lines[k].line = "scope"

\* a document with the heading of one display type of typeMap and none for
\* the other, of which no commit was entered
C23_Witness ==
    /\ apc = "returned"
    /\ Cardinality(Headings) = 1
    /\ locals.commitCount = 2
    /\ \E i \in DOMAIN config.typeMap :
         TypeIndex(locals.typeGroups, config.typeMap[i].display) = 0

-----------------------------------------------------------------------------
(* Properties of the retry walk of generateChangelog.                      *)

(* C24: a base that the detector found identical to the current sha is     *)
(* never the base of the range: the range compare is not made in an        *)
(* iteration in which areTagsEffectivelyIdentical returned true.           *)
C24_EquivalentBaseNotUsed == gpc = "range" => ~walk.same

\* the tag after the base in tags, when the base is the sha of a tag that is
\* not the last
OlderTagExists ==
    /\ findIndex(tags, targetSha) >= 0
    /\ findIndex(tags, targetSha) + 1 < Len(tags)
OlderTag == TagAt(findIndex(tags, targetSha) + 1).commit.sha

\* the step on which generateChangelog takes a verdict "identical"
TakesSame == gpc = "detect" /\ d.pc = "returned" /\ d.verdict /\ gpc' # "detect"

(* C25: when the base is found identical to the current sha, the next base *)
(* is the tag after it in tags whenever there is one; the first parent of  *)
(* the base is asked for only when there is none.                          *)
C25_OlderTagBeforeParent ==
    [][TakesSame =>
          IF OlderTagExists
          THEN gpc' = "loop" /\ targetSha' = OlderTag /\ retryCount' = retryCount + 1
          ELSE gpc' = "parent"]_vars

(* C26: when the first base that is not identical to the current sha is    *)
(* reached after k retries, generateChangelog makes exactly k retries and  *)
(* builds the changelog of the range from that base; the "Unable to        *)
(* generate" text is returned only when the ceiling is passed without such *)
(* a base, and no error is raised but a failed host call's.                *)
C26_ExactlyEnoughRetries ==
    /\ (gpc = "returned" /\ walk.different /\ fallbacks = 0) =>
          /\ retryCount = walk.at
          /\ result.kind \in {"changelog", "noSignificant"}
    /\ (gpc = "returned" /\ result.kind = "unable") =>
          /\ ~walk.different
          /\ retryCount >= MAX_RETRIES
    /\ gpc = "thrown" => ~lastCall.ok

(* C30: an empty range is no error: when the range compare gives an empty  *)
(* list of commits, generateChangelog raises no error and returns the "No  *)
(* significant changes" text.                                              *)
C30_EmptyRangeNoSignificant ==
    walk.emptyRange => gpc = "returned" /\ result.kind = "noSignificant"

-----------------------------------------------------------------------------
(* Properties of the layers of areTagsEffectivelyIdentical (checked under  *)
(* SpecDet).                                                               *)

\* the trees of the commits the host has given for a reference: of what it
\* points to as a tag or a branch, and of the commit it names as a sha
ResolvedTrees(ref) ==
    TreesOf(ref) \cup
    {e.ans.tree : e \in {x \in OkAnswers("getCommit") : x.req.commit_sha = ref}}

(* C27: two references whose lookups succeed and whose commits have the    *)
(* same tree are found identical, also when the compare fails or reports   *)
(* differences; an annotated tag is dereferenced to its commit before the  *)
(* trees are compared.                                                     *)
C27_EqualTreesIdentical ==
    /\ (d.pc = "returned" /\ ResolvedTrees(baseRef) \cap ResolvedTrees(headRef) # {})
          => d.verdict
    /\ \A side \in Sides :
         (/\ d.pc = (IF side = "base" THEN "treeCommit_base" ELSE "treeCommit_head")
          /\ d.refData[side].type = "tag")
            => \E e \in OkAnswers("getTag") : e.req = TagReq(d.refData[side].sha)

\* the compare request of the position of the call
CompareOf(f) ==
    IF f.pc = "devCompare" THEN CompareReq(norm(f, "base"), norm(f, "head"))
    ELSE CompareReq(f.ref.base, f.ref.head)

\* the host's answer to a request proves the references identical
ProvenBy(log, req) ==
    \E e \in log : e.req = req /\ e.ans.ok /\ CompareProves(e.ans)

\* the positions of the lookups: of the checks of development tags, and of
\* the tree comparison made for all references
DevLookups ==
    {p \o "_" \o side : p \in {"devTagRef", "devHeadsRef", "devTag", "devCommit"},
                         side \in Sides}
TreeLayer ==
    {p \o "_" \o side : p \in {"resTag", "resBranch", "resCommit", "treeCommit"},
                         side \in Sides}

(* C28: the layers are tried in order and the first success ends the call: *)
(* a compare that succeeds and reports ahead 0 and behind 0, or no changed *)
(* file, or the status "identical" makes the call return true at once,     *)
(* with no lookup of a reference, a tag or a commit after it; the lookups  *)
(* are reached only when the compare before them failed or proved nothing. *)
C28_CompareShortCircuits ==
    /\ [][(d.pc \in {"devCompare", "compare"} /\ d' # d
            /\ ProvenBy(memo'.log, CompareOf(d)))
          => (d'.pc = "returned" /\ d'.verdict)]_vars
    /\ [](d.pc \in DevLookups =>
            /\ Answered(CompareReq(norm(d, "base"), norm(d, "head")))
            /\ ~ProvenBy(memo.log, CompareReq(norm(d, "base"), norm(d, "head"))))
    /\ [](d.pc \in TreeLayer =>
            /\ Answered(CompareReq(d.ref.base, d.ref.head))
            /\ ~ProvenBy(memo.log, CompareReq(d.ref.base, d.ref.head)))
    /\ []((phase = 1 /\ d.pc = "returned" /\ ProvenBy(memo.log, CompareOf(Enter(baseRef, headRef))))
            => /\ d.verdict
               /\ \A e \in memo.log : e.req.op = "compareCommits")

\* a call that returned true on a compare with commits ahead but no changed
\* file, having asked the host nothing else
C28_Witness ==
    /\ phase = 1
    /\ d.pc = "returned" /\ d.verdict
    /\ \E e \in memo.log : e.ans.ok /\ e.ans.ahead_by = 1 /\ e.ans.files = 0
    /\ Cardinality(memo.log) = 1

-----------------------------------------------------------------------------
(* Properties of the pagination of getTagInfo (checked under SpecTag).     *)

(* C29: the pages of tags are requested lazily and the scan stops early: a *)
(* page is requested only when every tag of the pages before it has been   *)
(* examined without a selection, and once a tag is selected no further     *)
(* page is requested and no later tag is examined.                         *)
C29_StopsAtSelection ==
    /\ [][pulled' # pulled =>
            /\ pulled' = pulled + 1
            /\ data = <<>>
            /\ ~previous.present]_vars
    /\ [][previous.present =>
            /\ pulled' = pulled
            /\ seen' = seen
            /\ data' = data
            /\ tagInfo' = tagInfo]_vars
    /\ [](previous.present => tpc = "done")

\* getTagInfo returned with a selection while a tag of the page was still
\* to be examined and the host had a further page
C29_Witness ==
    /\ tpc = "done" /\ previous.present
    /\ data # <<>>
    /\ more

-----------------------------------------------------------------------------
(* Properties of the references and of the lines of the document (checked  *)
(* under SpecAgg).                                                         *)

\* the references of the line of this type, scope and description; none
\* when there is no such line
ReferencesOf(groups, key) ==
    IF \E place \in LogPlaces(groups) : KeyAt(groups, place) = key
    THEN LogAt(groups, CHOOSE place \in LogPlaces(groups) :
                           KeyAt(groups, place) = key).references
    ELSE <<>>

\* the step enters a commit whose author is mentioned
EntersMentioned ==
    /\ apc = "loop"
    /\ locals.commitCount < Len(commits)
    /\ Entered(commits[locals.commitCount + 1])
    /\ commits[locals.commitCount + 1].login # ""
    /\ config.shouldMentionAuthors

\* the references of the line of the commit after the step: the last
\* reference with "&", the link and the mention in place of its mention
\* when it ends with the mention of the commit, else one reference more
MergedIntoLast ==
    LET c == commits[locals.commitCount + 1]
        old == ReferencesOf(locals.typeGroups, KeyOf(c))
        new == ReferencesOf(locals'.typeGroups, KeyOf(c))
        own == Reference(config, c) \o <<Mention(c.login)>>
        last == Len(old)
    IN  IF last > 0 /\ old[last][Len(old[last])] = Mention(c.login)
        THEN /\ Len(new) = last
             /\ SubSeq(new, 1, last - 1) = SubSeq(old, 1, last - 1)
             /\ new[last] = SubSeq(old[last], 1, Len(old[last]) - 1) \o <<Amp>> \o own
        ELSE new = Append(old, own)

(* C31: with mentions of authors, a commit whose mention ends the last     *)
(* reference of its line adds no reference: the last reference gets "&",   *)
(* the link of the commit and the mention in place of its mention; any     *)
(* other commit of a mentioned author adds a reference of its own, also    *)
(* when an earlier reference than the last ends with its mention.          *)
C31_MergeWithLastOnly == [][EntersMentioned => MergedIntoLast]_vars

\* a line of three references: the first of two commits of an author, the
\* third of a later commit of the same author, after another's
C31_Witness ==
    /\ locals.processedCommitCount = 4
    /\ \E place \in LogPlaces(locals.typeGroups) :
         LET references == LogAt(locals.typeGroups, place).references
         IN  /\ Len(references) = 3
             /\ \E i \in DOMAIN references[1] : references[1][i] = Amp
             /\ references[1][Len(references[1])] = references[3][Len(references[3])]
             /\ references[2][Len(references[2])] # references[3][Len(references[3])]
             /\ references[3][Len(references[3])].part = "by"

\* the links of the references of a line, in their order
LinksOf(references) ==
    SelectSeq(Flatten(references), LAMBDA part : part.part \in {"pr", "commit"})

\* the step enters a commit
Enters ==
    /\ apc = "loop"
    /\ locals.commitCount < Len(commits)
    /\ Entered(commits[locals.commitCount + 1])

\* the links of the line of the commit after the step: one more, to the
\* pull request or else to the commit, or none more
OneLinkByPriority ==
    LET c == commits[locals.commitCount + 1]
        old == LinksOf(ReferencesOf(locals.typeGroups, KeyOf(c)))
        new == LinksOf(ReferencesOf(locals'.typeGroups, KeyOf(c)))
    IN  /\ Len(new) <= Len(old) + 1
        /\ SubSeq(new, 1, Len(old)) = old
        /\ IF c.parsed.pr # 0 /\ config.shouldIncludePRLinks
           THEN /\ Len(new) = Len(old) + 1
                /\ new[Len(new)].part = "pr" /\ new[Len(new)].pr = c.parsed.pr
           ELSE IF config.shouldIncludeCommitLinks
           THEN /\ Len(new) = Len(old) + 1
                /\ new[Len(new)].part = "commit" /\ new[Len(new)].sha = c.sha
           ELSE new = old

(* C32: a commit adds at most one link to its line: the link of its pull   *)
(* request when it has one and the links of pull requests are on, else the *)
(* link of the commit when the links of commits are on, else none; never   *)
(* both.                                                                   *)
C32_OneLinkByPriority ==
    /\ [][Enters => OneLinkByPriority]_vars
    /\ [](\A place \in LogPlaces(locals.typeGroups) :
            \A i \in DOMAIN commits :
               LET links == LinksOf(LogAt(locals.typeGroups, place).references)
               IN  ~(/\ \E k \in DOMAIN links :
                          links[k].part = "commit" /\ links[k].sha = commits[i].sha
                     /\ \E k \in DOMAIN links :
                          /\ links[k].part = "pr"
                          /\ IsParsed(commits[i]) /\ links[k].pr = commits[i].parsed.pr
                          /\ \A j \in DOMAIN commits :
                               (j # i /\ IsParsed(commits[j])) =>
                                   commits[j].parsed.pr # links[k].pr))

\* with both kinds of links on, a line of a commit with a pull request and
\* of a commit without: the link of the pull request, then the link of the
\* second commit
C32_Witness ==
    /\ config.shouldIncludePRLinks /\ config.shouldIncludeCommitLinks
    /\ locals.processedCommitCount = 2
    /\ commits[1].parsed.pr # 0
    /\ \E place \in LogPlaces(locals.typeGroups) :
         LET links == LinksOf(LogAt(locals.typeGroups, place).references)
         IN  /\ Len(links) = 2
             /\ links[1].part = "pr"
             /\ links[2].part = "commit" /\ links[2].sha = 2

\* two lines of the document are of one type group: no blank line between
SameSection(i, j) ==
    \A k \in i..j : changelog.lines[k].line # "blank"

\* the lines of the scopes, and the log lines of the group without scope
ScopeHeads == {i \in DOMAIN changelog.lines : changelog.lines[i].line = "scope"}
Unscoped ==
    {i \in DOMAIN changelog.lines :
        changelog.lines[i].line = "log" /\ ~changelog.lines[i].indented}

\* the scope groups with a name, over all type groups
NamedScopes ==
    {<<t, s>> \in UNION {{<<t, s>> : s \in DOMAIN locals.typeGroups[t].scopes} :
                            t \in DOMAIN locals.typeGroups} :
        locals.typeGroups[t].scopes[s].scope # ""}

(* C33: within a type group of the document the scope groups are in the    *)
(* order of their names, whatever the order in which the scopes arrived:   *)
(* the lines of the group without scope first, then each scope once, in    *)
(* ascending order.                                                        *)
C33_ScopesSorted ==
    apc = "returned" =>
        /\ \A i, j \in ScopeHeads :
             (i < j /\ SameSection(i, j)) =>
                ScopeRank(changelog.lines[i].scope) < ScopeRank(changelog.lines[j].scope)
        /\ \A i \in ScopeHeads : \A j \in Unscoped :
             (i < j) => ~SameSection(i, j)
        /\ Cardinality(ScopeHeads) = Cardinality(NamedScopes)

\* a document of a type group whose scopes arrived in descending order
C33_Witness ==
    /\ apc = "returned"
    /\ \E t \in DOMAIN locals.typeGroups :
         /\ Len(locals.typeGroups[t].scopes) = 2
         /\ ScopeRank(locals.typeGroups[t].scopes[1].scope) >
                ScopeRank(locals.typeGroups[t].scopes[2].scope)
         /\ locals.typeGroups[t].scopes[2].scope # ""

\* the line of the document before the log lines of a scope group: the line
\* of its scope, or the heading of its type for the group without scope
GroupStart(t, s) ==
    LET type == locals.typeGroups[t].type
        scope == locals.typeGroups[t].scopes[s].scope
    IN  {i \in DOMAIN changelog.lines :
            IF scope = ""
            THEN changelog.lines[i] = Heading(type)
            ELSE /\ changelog.lines[i] = ScopeLine(scope)
                 /\ \E h \in Headings :
                      /\ h < i
                      /\ changelog.lines[h] = Heading(type)
                      /\ SameSection(h, i)}

\* the first commit of the list that was entered under a type, scope and
\* description
FirstCommit(key) ==
    First({i \in DOMAIN commits : Entered(commits[i]) /\ KeyOf(commits[i]) = key})

(* C34: the entries of a scope group are under one line of the scope (the  *)
(* heading of the type for the group without scope), one log line each,    *)
(* in the order in which their first commits arrived, and a log line has   *)
(* the breaking marker exactly when its entry is breaking.                 *)
C34_OneScopeHeadingArrivalOrder ==
    apc = "returned" =>
        \A t \in DOMAIN locals.typeGroups :
          \A s \in DOMAIN locals.typeGroups[t].scopes :
            LET group == locals.typeGroups[t].scopes[s]
            IN  /\ Cardinality(GroupStart(t, s)) = 1
                /\ \A start \in GroupStart(t, s) :
                     /\ start + Len(group.logs) < Len(changelog.lines)
                     /\ \A l \in DOMAIN group.logs :
                          LET ln == changelog.lines[start + l]
                          IN  /\ ln.line = "log"
                              /\ ln.description = group.logs[l].description
                              /\ ln.references = group.logs[l].references
                              /\ ln.indented = (group.scope # "")
                              /\ ln.breaking = group.logs[l].breaking
                     /\ changelog.lines[start + Len(group.logs) + 1].line # "log"
                /\ \A l, m \in DOMAIN group.logs :
                     l < m =>
                        /\ FirstCommit(KeyAt(locals.typeGroups, <<t, s, l>>)) > 0
                        /\ FirstCommit(KeyAt(locals.typeGroups, <<t, s, l>>)) <
                              FirstCommit(KeyAt(locals.typeGroups, <<t, s, m>>))

\* a document of a scope with a name and two entries, of which one is
\* breaking
C34_Witness ==
    /\ apc = "returned"
    /\ \E t \in DOMAIN locals.typeGroups :
         \E s \in DOMAIN locals.typeGroups[t].scopes :
            LET group == locals.typeGroups[t].scopes[s]
            IN  /\ group.scope # ""
                /\ Len(group.logs) = 2
                /\ group.logs[1].breaking # group.logs[2].breaking
    /\ Cardinality(ScopeHeads) = 1

-----------------------------------------------------------------------------
(* Properties of the bases of generateChangelog (checked under Spec).      *)

(* C35: a failure of the range compare does not leave generateChangelog:   *)
(* when the range is compared, a last sha was given and the listing of all *)
(* commits has not been fallen back to, so a failure of the compare leads  *)
(* to that listing, and generateChangelog never throws on a compare.       *)
C35_RangeFailureFallsBack ==
    /\ [](gpc = "range" =>
            /\ lastSha # Undefined
            /\ targetSha # Undefined
            /\ initialAttemptWithLastSha
            /\ fallbacks = 0)
    /\ [][(gpc = "range" /\ ~lastCall'.ok) =>
            /\ gpc' = "loop"
            /\ targetSha' = Undefined
            /\ fallbacks' = 1]_vars
    /\ [](gpc = "thrown" => lastCall.op # "compareCommits")

\* the compare of the range has failed and the next iteration lists all
\* commits
C35_Witness ==
    /\ gpc = "loop"
    /\ lastCall = [op |-> "compareCommits", ok |-> FALSE]
    /\ targetSha = Undefined
    /\ fallbacks = 1

(* C36: generateChangelog returns "Unable to generate changelog" only when *)
(* the detector found every base of the walk equivalent to the current     *)
(* sha: no base that the detector found different is given up.             *)
C36_UnableOnlyIfAllEquivalent ==
    (gpc = "returned" /\ result.kind = "unable") => ~walk.different

\* the step is a retry: another base for the next iteration
Retries == retryCount' = retryCount + 1

(* C37: the walk makes progress: the base that a retry chooses is not the  *)
(* current sha and is none of the bases tried before in the run, whatever  *)
(* the list of tags (several tags of one commit included).                 *)
C37_RetryMakesProgress ==
    [][Retries => (targetSha' # sha /\ targetSha' \notin walk.tried)]_vars

\* the tag that a retry puts in place of the base: the tag after the later
\* of the two found (changelog.ts 421-428), or after the base (586-589)
Substituted ==
    IF gpc = "detect"
    THEN TagAt(Max(findIndex(tags, targetSha), findIndex(tags, sha)) + 1)
    ELSE TagAt(findIndex(tags, targetSha) + 1)

\* the step is a retry with the next tag of the list
RetriesWithTag ==
    /\ Retries
    /\ \/ gpc = "detect"
       \/ gpc = "range" /\ lastCall'.ok

(* C38: a tag that the walk puts in place of the base is eligible for the  *)
(* release as the tags of getTagInfo are: of another commit, of a version  *)
(* strictly below the release's, on the release's prerelease channel       *)
(* (checked under SpecWalk).                                               *)
C38_SubstitutedTagEligible ==
    [][RetriesWithTag => (targetSha' = Substituted.commit.sha /\ Eligible(Substituted))]_vars

\* the log lines of the document
LogLines == {i \in DOMAIN changelog.lines : changelog.lines[i].line = "log"}

(* C39: the breaking flag of an entry is the one of its first commit: a    *)
(* later commit of the same type, scope and description leaves it as it    *)
(* is, whether the commit is breaking or not, and the document marks the   *)
(* line by that flag (checked under SpecAgg).                              *)
C39_BreakingOfFirstCommit ==
    /\ [](\A place \in LogPlaces(locals.typeGroups) :
            /\ FirstCommit(KeyAt(locals.typeGroups, place)) \in DOMAIN DoneCommits
            /\ LogAt(locals.typeGroups, place).breaking =
                  commits[FirstCommit(KeyAt(locals.typeGroups, place))].parsed.breaking)
    /\ [][EntersMatching =>
            \A place \in LogPlaces(locals.typeGroups) :
               LogAt(locals'.typeGroups, place).breaking =
                  LogAt(locals.typeGroups, place).breaking]_vars
    /\ [](apc = "returned" =>
            Cardinality({i \in LogLines : changelog.lines[i].breaking}) =
            Cardinality({place \in LogPlaces(locals.typeGroups) :
                            LogAt(locals.typeGroups, place).breaking}))

\* a document with one log line, not breaking, of a commit that is not
\* breaking and a later one that is
C39_Witness ==
    /\ apc = "returned"
    /\ Len(commits) = 2
    /\ locals.processedCommitCount = 2
    /\ ~commits[1].parsed.breaking /\ commits[2].parsed.breaking
    /\ Cardinality(LogLines) = 1
    /\ \A i \in LogLines : ~changelog.lines[i].breaking

\* the log lines of the document that are those of an entry: under the
\* heading of its type, with its description, references and flag, and
\* indented exactly when its scope has a name
LinesOf(place) ==
    LET groups == locals.typeGroups
        log == LogAt(groups, place)
        scope == groups[place[1]].scopes[place[2]].scope
    IN  {i \in LogLines :
            /\ changelog.lines[i] = LogLine(scope # "", log)
            /\ \E h \in Headings :
                 /\ h < i
                 /\ changelog.lines[h] = Heading(groups[place[1]].type)
                 /\ SameSection(h, i)
            /\ scope # "" =>
                 \E k \in ScopeHeads :
                    /\ k < i
                    /\ changelog.lines[k] = ScopeLine(scope)
                    /\ \A j \in k + 1..i : changelog.lines[j].line = "log"}

====
